---- MODULE Spec2Model ----
(***************************************************************************)
(* A model of the request/response logic of cvpysdk:                       *)
(*   deployment/install.py        Install.push_servicepack_and_hotfix,     *)
(*                                Install.install_software                 *)
(*   subclients/virtualserver/livesync/vsa_live_sync.py                    *)
(*                                VsaLiveSync, LiveSyncPair                *)
(*   instances/mysqlinstance.py   MYSQLInstance: property accessors,       *)
(*                                restore_in_place and its sub-builders    *)
(*   instances/virtualserver/openstackinstance.py, oraclecloudinstance.py  *)
(*                                _get_instance_properties and the server  *)
(*                                name accessors                           *)
(* Every public operation is one action: its inputs and the transport's    *)
(* answer are drawn from bounded sets, and the action records the request  *)
(* that was sent, the number of make_request calls, and how the call       *)
(* ended (a returned value or a raised exception).                         *)
(***************************************************************************)
EXTENDS Integers, Sequences, FiniteSets, TLC

VARIABLES
    input,         \* the arguments the caller passes to the Install operation
    call,          \* the last operation called and its arguments
    response,      \* what make_request returned during that call (or NoResponse)
    request_json,  \* the body handed to make_request during that call (or None)
    nreq,          \* number of make_request invocations during that call
    endpoint,      \* the endpoint of the last make_request of that call
    outcome,       \* how that call ended: a return value or a raised exception
    vsa,           \* the VsaLiveSync object
    pair,          \* the LiveSyncPair object
    repeated,      \* that call was a refresh() directly after a refresh() of
                   \* the same object that got the same answer
    mysql,         \* the MYSQLInstance object
    vs             \* the OpenStackInstance or OracleCloudInstance object

vars == <<input, call, response, request_json, nreq, endpoint, outcome, vsa, pair,
          repeated, mysql, vs>>

-----------------------------------------------------------------------------
(* Bounds of the model *)

\* longest list passed for a list-typed argument
MaxList == 2
\* longest jobIds sequence of a submission response
MaxJobIds == 2
\* longest siteInfo sequence of a query response
MaxSites == 2

-----------------------------------------------------------------------------
(* Python values *)

None == [t |-> "None"]
List(s) == [t |-> "list", v |-> s]
Bool(b) == [t |-> "bool", v |-> b]
Str(x) == [t |-> "str", v |-> x]
PyInt(n) == [t |-> "int", v |-> n]
Dict(f) == [t |-> "dict", v |-> f]

\* all sequences over S of length 0..n
SeqUpTo(S, n) == UNION {[1..k -> S] : k \in 0..n}

\* an argument that is None or a list over S
OptList(S) == {None} \cup {List(s) : s \in SeqUpTo(S, MaxList)}

\* truth value of a None-or-list argument
bool(x) == x.t = "list" /\ Len(x.v) > 0

\* the elements of a sequence, as a set
set(s) == {s[i] : i \in 1..Len(s)}

\* names are sequences of characters, so that letter case is something
\* str.lower() acts on
Upper == {"A", "B", "F", "G", "H", "O"}
LowerChar(c) ==
    CASE c = "A" -> "a"
      [] c = "B" -> "b"
      [] c = "F" -> "f"
      [] c = "G" -> "g"
      [] c = "H" -> "h"
      [] c = "O" -> "o"
      [] OTHER -> c
lower(s) == [i \in 1..Len(s) |-> LowerChar(s[i])]

-----------------------------------------------------------------------------
(* Exceptions and results *)

NoMessage == <<>>
SDKException(module, id, message) ==
    [t |-> "SDKException", module |-> module, id |-> id, message |-> message]
PyError(type) ==
    [t |-> type, module |-> "", id |-> "", message |-> NoMessage]

Return(v) == [kind |-> "return", value |-> v]
Raise(e) == [kind |-> "raise", exc |-> e]
NotCalled == [kind |-> "none"]

\* the session's error-formatting hook applied to the raw response text
update_response(text) == <<text>>

\* the Job Handle constructor: (session, job_id) -> JobHandle
Job(job_id) == [t |-> "Job", job_id |-> job_id]

-----------------------------------------------------------------------------
(* The transport: make_request returns (flag, response) *)

\* the services table
NoEndpoint == [service |-> "none"]
CREATE_TASK == [service |-> "CREATE_TASK"]

NoResponse == [flag |-> FALSE, text |-> "", sent |-> FALSE]

ErrorTexts == {"timeout", "denied"}
JobIdValues == {42, 43}

\* response.json(): Unparsable stands for a body that is not valid JSON
Unparsable == [ok |-> FALSE]
Json(f) == [ok |-> TRUE, v |-> f]
EmptyBody == <<>>
OtherBody == [other |-> 1]

FailedResponses ==
    {[flag |-> FALSE, text |-> t, sent |-> TRUE, body |-> Unparsable] : t \in ErrorTexts}

Success(b) == [flag |-> TRUE, text |-> "", sent |-> TRUE, body |-> b]

\* answers of the CREATE_TASK endpoint
TaskResponses ==
    FailedResponses
    \cup {Success(Unparsable), Success(Json(EmptyBody)), Success(Json(OtherBody))}
    \cup {Success(Json([jobIds |-> ids])) : ids \in SeqUpTo(JobIdValues, MaxJobIds)}

-----------------------------------------------------------------------------
(* The session (commcell object) *)

ClientNames == {<<"h", "a">>, <<"H", "A">>, <<"h", "b">>, <<"h", "c">>}
GroupNames == {<<"G", "a">>, <<"g", "x">>}
all_clients == {<<"h", "a">>, <<"h", "b">>}
all_clientgroups == {<<"g", "a">>}
commserv_name == "cs"
commserv_hostname == "cs.host"

-----------------------------------------------------------------------------
(* Install.push_servicepack_and_hotfix *)

\* [x.lower() for x in names]
lower_all(names) == [i \in 1..Len(names) |-> lower(names[i])]

\* variant: the input names are kept as written
push_selected_clients_as_written(client_computers, all_client_computers) ==
    IF all_client_computers
    THEN << [_type_ |-> 2] >>
    ELSE IF client_computers.t = "None"
         THEN << >>
         ELSE [i \in 1..Len(client_computers.v) |-> [clientName |-> client_computers.v[i]]]

\* variant: the all-computers sentinel is appended to the explicit entries
push_selected_clients_additive(client_computers, all_client_computers) ==
    LET explicit ==
            IF client_computers.t = "None"
            THEN << >>
            ELSE [i \in 1..Len(client_computers.v) |->
                     [clientName |-> lower(client_computers.v[i])]]
    IN  IF all_client_computers THEN explicit \o << [_type_ |-> 2] >> ELSE explicit

\* selected_clients after lines 108-113 and 123-124
push_selected_clients(client_computers, all_client_computers) ==
    IF all_client_computers
    THEN << [_type_ |-> 2] >>
    ELSE IF client_computers.t = "None"
         THEN << >>
         ELSE LET names == lower_all(client_computers.v)
              IN  [i \in 1..Len(names) |-> [clientName |-> names[i]]]

\* selected_client_groups after lines 115-121 and 126-127
push_selected_client_groups(client_computer_groups, all_client_computer_groups) ==
    IF all_client_computer_groups
    THEN << [_type_ |-> 27] >>
    ELSE IF client_computer_groups.t = "None"
         THEN << >>
         ELSE LET names == lower_all(client_computer_groups.v)
              IN  [i \in 1..Len(names) |-> [clientGroupName |-> names[i]]]

\* variant: the groups part is placed first
push_all_clients_groups_first(a) ==
    push_selected_client_groups(a.client_computer_groups, a.all_client_computer_groups)
    \o push_selected_clients(a.client_computers, a.all_client_computers)

\* all_clients = selected_clients + selected_client_groups
push_all_clients(a) ==
    push_selected_clients(a.client_computers, a.all_client_computers)
    \o push_selected_client_groups(a.client_computer_groups, a.all_client_computer_groups)

\* variant: an empty list counts as a selector (a test against None)
push_validate_not_none(a) ==
    IF ~(a.all_client_computers \/ a.all_client_computer_groups
         \/ a.client_computers.t # "None" \/ a.client_computer_groups.t # "None")
    THEN SDKException("Install", "101", NoMessage)
    ELSE IF a.client_computers.t # "None"
            /\ ~(set(lower_all(a.client_computers.v)) \subseteq all_clients)
    THEN SDKException("Install", "102", NoMessage)
    ELSE IF a.client_computer_groups.t # "None"
            /\ ~(set(lower_all(a.client_computer_groups.v)) \subseteq all_clientgroups)
    THEN SDKException("Install", "103", NoMessage)
    ELSE None

\* variant: a list is checked only when its "all" flag is off
push_validate_unless_all(a) ==
    IF ~(a.all_client_computers \/ a.all_client_computer_groups
         \/ bool(a.client_computers) \/ bool(a.client_computer_groups))
    THEN SDKException("Install", "101", NoMessage)
    ELSE IF a.client_computers.t # "None" /\ ~a.all_client_computers
            /\ ~(set(lower_all(a.client_computers.v)) \subseteq all_clients)
    THEN SDKException("Install", "102", NoMessage)
    ELSE IF a.client_computer_groups.t # "None" /\ ~a.all_client_computer_groups
            /\ ~(set(lower_all(a.client_computer_groups.v)) \subseteq all_clientgroups)
    THEN SDKException("Install", "103", NoMessage)
    ELSE None

\* the exception raised by the checks that precede the request, or None
push_validate(a) ==
    IF ~(a.all_client_computers \/ a.all_client_computer_groups
         \/ bool(a.client_computers) \/ bool(a.client_computer_groups))
    THEN SDKException("Install", "101", NoMessage)
    ELSE IF a.client_computers.t # "None"
            /\ ~(set(lower_all(a.client_computers.v)) \subseteq all_clients)
    THEN SDKException("Install", "102", NoMessage)
    ELSE IF a.client_computer_groups.t # "None"
            /\ ~(set(lower_all(a.client_computer_groups.v)) \subseteq all_clientgroups)
    THEN SDKException("Install", "103", NoMessage)
    ELSE None

push_request_json(a) ==
    [taskInfo |->
        [task |-> [taskType |-> 1, initiatedFrom |-> 2, policyType |-> 0,
                   alert |-> [alertName |-> ""],
                   taskFlags |-> [isEdgeDrive |-> FALSE, disabled |-> FALSE]],
         subTasks |-> <<
            [subTaskOperation |-> 1,
             subTask |-> [subTaskType |-> 1, operationType |-> 4020],
             options |-> [adminOpts |-> [updateOption |->
                [removeIntersectingDiag |-> TRUE,
                 restartExplorerPlugin |-> TRUE,
                 rebootClient |-> a.reboot_client,
                 runDBMaintenance |-> a.run_db_maintenance,
                 clientAndClientGroups |-> push_all_clients(a),
                 installUpdatesJobType |->
                    [upgradeClients |-> FALSE, undoUpdates |-> FALSE,
                     installUpdates |-> TRUE]]]]]
         >>]]

\* variant: the last job id is taken
push_process_response_last_id(r) ==
    IF r.flag
    THEN IF ~r.body.ok
         THEN Raise(PyError("ValueError"))
         ELSE IF DOMAIN r.body.v # {}
              THEN IF "jobIds" \in DOMAIN r.body.v
                   THEN IF Len(r.body.v.jobIds) = 0
                        THEN Raise(PyError("IndexError"))
                        ELSE Return(Job(r.body.v.jobIds[Len(r.body.v.jobIds)]))
                   ELSE Raise(SDKException("Install", "107", NoMessage))
              ELSE Raise(SDKException("Response", "102", NoMessage))
    ELSE Raise(SDKException("Response", "101", NoMessage))

\* lines 176-187: what the call does with make_request's answer
push_process_response(r) ==
    IF r.flag
    THEN IF ~r.body.ok
         THEN Raise(PyError("ValueError"))
         ELSE IF DOMAIN r.body.v # {}
              THEN IF "jobIds" \in DOMAIN r.body.v
                   THEN IF Len(r.body.v.jobIds) = 0
                        THEN Raise(PyError("IndexError"))
                        ELSE Return(Job(r.body.v.jobIds[1]))
                   ELSE Raise(SDKException("Install", "107", NoMessage))
              ELSE Raise(SDKException("Response", "102", NoMessage))
    ELSE Raise(SDKException("Response", "101", NoMessage))

PushArgs ==
    [op : {"push_servicepack_and_hotfix"},
     client_computers : OptList(ClientNames),
     client_computer_groups : OptList(GroupNames),
     all_client_computers : BOOLEAN,
     all_client_computer_groups : BOOLEAN,
     reboot_client : BOOLEAN,
     run_db_maintenance : BOOLEAN]

push_servicepack_and_hotfix(a, r) ==
    /\ a.op = "push_servicepack_and_hotfix"
    /\ call' = a
    /\ IF push_validate(a).t # "None"
       THEN /\ outcome' = Raise(push_validate(a))
            /\ request_json' = None
            /\ response' = NoResponse
            /\ nreq' = 0
            /\ endpoint' = NoEndpoint
       ELSE /\ request_json' = push_request_json(a)
            /\ response' = r
            /\ nreq' = 1
            /\ endpoint' = CREATE_TASK
            /\ outcome' = push_process_response(r)
    /\ repeated' = FALSE
    /\ UNCHANGED <<vs, input, vsa, pair, mysql>>

-----------------------------------------------------------------------------
(* Install.install_software *)

HostNames == {<<"w", "1">>, <<"w", "2">>}
FeatureIds == {702, 1002}
Credentials == {[username |-> None, password |-> None],
                [username |-> Str("admin"), password |-> Str("cGFzcw==")]}

\* lines 253-264: os_type and install_options, or the exception raised
install_options(windows_features, unix_features) ==
    IF bool(windows_features)
    THEN Return([os_type |-> 0,
                 install_options |->
                     [i \in 1..Len(windows_features.v) |->
                         [osType |-> "Windows", ComponentId |-> windows_features.v[i]]]])
    ELSE IF bool(unix_features)
    THEN IF windows_features.t = "None"
         THEN Raise(PyError("TypeError"))
         ELSE Return([os_type |-> 1,
                      install_options |->
                          [i \in 1..Len(windows_features.v) |->
                              [osType |-> "Unix", ComponentId |-> windows_features.v[i]]]])
    ELSE Raise(SDKException("Install", "105", NoMessage))

\* lines 266-280: client_details
install_client_details(client_computers) ==
    IF bool(client_computers)
    THEN Return([i \in 1..Len(client_computers.v) |->
                    [clientEntity |-> [clientName |-> client_computers.v[i],
                                       commCellName |-> commserv_name]]])
    ELSE Raise(SDKException("Install", "106", NoMessage))

\* the exception raised before the request is built, or None
install_validate(a) ==
    IF install_options(a.windows_features, a.unix_features).kind = "raise"
    THEN install_options(a.windows_features, a.unix_features).exc
    ELSE IF install_client_details(a.client_computers).kind = "raise"
    THEN install_client_details(a.client_computers).exc
    ELSE None

install_request_json(a) ==
    LET opts == install_options(a.windows_features, a.unix_features).value
    IN
    [taskInfo |->
        [associations |-> << [commCellId |-> 2] >>,
         task |-> [taskType |-> 1, initiatedFrom |-> 1,
                   taskFlags |-> [disabled |-> FALSE]],
         subTasks |-> <<
            [subTask |-> [subTaskType |-> 1, operationType |-> 4026],
             options |-> [adminOpts |->
                [clientInstallOption |->
                    [reuseADCredentials |-> FALSE,
                     installOSType |-> opts.os_type,
                     discoveryType |-> 0,
                     installerOption |->
                        [requestType |-> 0,
                         Operationtype |-> 0,
                         CommServeHostName |-> commserv_hostname,
                         RemoteClient |-> FALSE,
                         User |-> [userName |-> "admin", userId |-> 1],
                         clientComposition |-> <<
                            [packageDeliveryOption |-> 0,
                             overrideSoftwareCache |-> FALSE,
                             components |->
                                [commonInfo |-> [globalFilters |-> 2],
                                 fileSystem |-> [configureForLaptopBackups |-> FALSE],
                                 componentInfo |-> opts.install_options],
                             clientInfo |-> [client |-> [evmgrcPort |-> 0, cvdPort |-> 0]]]
                         >>],
                     clientDetails |-> install_client_details(a.client_computers).value,
                     clientAuthForJob |-> [password |-> a.password,
                                           userName |-> a.username]],
                 updateOption |-> [rebootClient |-> TRUE]]]]
         >>]]

\* lines 377-388: what the call does with make_request's answer
install_process_response(r) ==
    IF r.flag
    THEN IF ~r.body.ok
         THEN Raise(PyError("ValueError"))
         ELSE IF DOMAIN r.body.v # {}
              THEN IF "jobIds" \in DOMAIN r.body.v
                   THEN IF Len(r.body.v.jobIds) = 0
                        THEN Raise(PyError("IndexError"))
                        ELSE Return(Job(r.body.v.jobIds[1]))
                   ELSE Raise(SDKException("Install", "107", NoMessage))
              ELSE Raise(SDKException("Response", "102", NoMessage))
    ELSE Raise(SDKException("Response", "101", NoMessage))

InstallArgs ==
    {[op |-> "install_software",
      client_computers |-> cc,
      windows_features |-> wf,
      unix_features |-> uf,
      username |-> c.username,
      password |-> c.password] :
        cc \in OptList(HostNames), wf \in OptList(FeatureIds),
        uf \in OptList(FeatureIds), c \in Credentials}

install_software(a, r) ==
    /\ a.op = "install_software"
    /\ call' = a
    /\ IF install_validate(a).t # "None"
       THEN /\ outcome' = Raise(install_validate(a))
            /\ request_json' = None
            /\ response' = NoResponse
            /\ nreq' = 0
            /\ endpoint' = NoEndpoint
       ELSE /\ request_json' = install_request_json(a)
            /\ response' = r
            /\ nreq' = 1
            /\ endpoint' = CREATE_TASK
            /\ outcome' = install_process_response(r)
    /\ repeated' = FALSE
    /\ UNCHANGED <<vs, input, vsa, pair, mysql>>

-----------------------------------------------------------------------------
(* VsaLiveSync: the live sync pairs of a subclient *)

subclient_id == "25"
GET_ALL_LIVE_SYNC_PAIRS(sid) ==
    [service |-> "GET_ALL_LIVE_SYNC_PAIRS", subclient_id |-> sid]
GET_LIVE_SYNC_PAIR(sid, id) ==
    [service |-> "GET_LIVE_SYNC_PAIR", subclient_id |-> sid, live_sync_id |-> id]

\* str(n) for an integer n
str(n) == ToString(n)

\* d[k] = v on a dict d
Put(d, k, v) == [x \in DOMAIN d \cup {k} |-> IF x = k THEN v ELSE d[x]]

\* the entries the server lists under siteInfo for the subclient
SiteEntries ==
    {[subTask |-> [subtaskName |-> <<"F", "o">>], replicationId |-> 7],
     [subTask |-> [subtaskName |-> <<"f", "o">>], replicationId |-> 8],
     [subTask |-> [subtaskName |-> <<"b", "a">>], replicationId |-> 7]}

\* answers of the GET_ALL_LIVE_SYNC_PAIRS endpoint
AllPairsResponses ==
    FailedResponses
    \cup {Success(Unparsable), Success(Json(EmptyBody)), Success(Json(OtherBody))}
    \cup {Success(Json([siteInfo |-> si])) : si \in SeqUpTo(SiteEntries, MaxSites)}

\* variant: an entry whose lower-cased name is already listed is skipped
RECURSIVE live_sync_pairs_dict_first_wins(_, _)
live_sync_pairs_dict_first_wins(siteInfo, d) ==
    IF Len(siteInfo) = 0
    THEN d
    ELSE LET dictionary == Head(siteInfo)
             temp_name == lower(dictionary.subTask.subtaskName)
             temp_id == str(dictionary.replicationId)
         IN  live_sync_pairs_dict_first_wins(
                 Tail(siteInfo),
                 IF temp_name \in DOMAIN d THEN d ELSE Put(d, temp_name, [id |-> temp_id]))

\* lines 180-185: the loop over response.json()['siteInfo']
RECURSIVE live_sync_pairs_dict(_, _)
live_sync_pairs_dict(siteInfo, d) ==
    IF Len(siteInfo) = 0
    THEN d
    ELSE LET dictionary == Head(siteInfo)
             temp_name == lower(dictionary.subTask.subtaskName)
             temp_id == str(dictionary.replicationId)
         IN  live_sync_pairs_dict(Tail(siteInfo), Put(d, temp_name, [id |-> temp_id]))

\* VsaLiveSync._get_live_sync_pairs: the value returned or the exception raised
get_live_sync_pairs(r) ==
    IF r.flag
    THEN IF ~r.body.ok
         THEN Raise(PyError("ValueError"))
         ELSE IF DOMAIN r.body.v = {}
              THEN Return(Dict(<< >>))
              ELSE IF "siteInfo" \in DOMAIN r.body.v
                   THEN Return(Dict(live_sync_pairs_dict(r.body.v.siteInfo, << >>)))
                   ELSE Raise(SDKException("Response", "102", NoMessage))
    ELSE Raise(SDKException("Response", "101", update_response(r.text)))

VsaObject(pairs) == [t |-> "VsaLiveSync", live_sync_pairs |-> pairs]

\* VsaLiveSync.__init__: _live_sync_pairs = None, then refresh(); when the
\* refresh raises, the constructor raises and no object comes to exist (None)
VsaLiveSync_init(r) ==
    LET got == get_live_sync_pairs(r)
    IN  IF got.kind = "raise" THEN None ELSE VsaObject(got.value)

\* variant: the snapshot is dropped before the query is made
VsaLiveSync_refresh_dropping(r) ==
    /\ vsa.t = "VsaLiveSync"
    /\ call' = [op |-> "VsaLiveSync.refresh"]
    /\ request_json' = None
    /\ endpoint' = GET_ALL_LIVE_SYNC_PAIRS(subclient_id)
    /\ response' = r
    /\ nreq' = 1
    /\ LET got == get_live_sync_pairs(r)
       IN  IF got.kind = "raise"
           THEN /\ outcome' = got
                /\ vsa' = [vsa EXCEPT !.live_sync_pairs = Dict(<< >>)]
           ELSE /\ outcome' = Return(None)
                /\ vsa' = [vsa EXCEPT !.live_sync_pairs = got.value]
    /\ repeated' = (call.op = "VsaLiveSync.refresh" /\ response = r)
    /\ UNCHANGED <<vs, input, pair, mysql>>

\* VsaLiveSync.refresh
VsaLiveSync_refresh(r) ==
    /\ vsa.t = "VsaLiveSync"
    /\ call' = [op |-> "VsaLiveSync.refresh"]
    /\ request_json' = None
    /\ endpoint' = GET_ALL_LIVE_SYNC_PAIRS(subclient_id)
    /\ response' = r
    /\ nreq' = 1
    /\ LET got == get_live_sync_pairs(r)
       IN  IF got.kind = "raise"
           THEN /\ outcome' = got
                /\ vsa' = vsa
           ELSE /\ outcome' = Return(None)
                /\ vsa' = [vsa EXCEPT !.live_sync_pairs = got.value]
    /\ repeated' = (call.op = "VsaLiveSync.refresh" /\ response = r)
    /\ UNCHANGED <<vs, input, pair, mysql>>

\* truth value of a value returned by has_live_sync_pair
truthy(x) ==
    CASE x.t = "bool" -> x.v
      [] x.t = "dict" -> DOMAIN x.v # {}
      [] OTHER -> FALSE

\* the value of: self.live_sync_pairs and name.lower() in self.live_sync_pairs
has_live_sync_pair_value(live_sync_pairs, live_sync_name) ==
    IF ~truthy(live_sync_pairs)
    THEN live_sync_pairs
    ELSE Bool(lower(live_sync_name) \in DOMAIN live_sync_pairs.v)

\* the names a caller asks for
PairNames == {<<"F", "o">>, <<"f", "o">>, <<"b", "a">>}

has_live_sync_pair(name) ==
    /\ vsa.t = "VsaLiveSync"
    /\ call' = [op |-> "has_live_sync_pair", live_sync_name |-> name]
    /\ outcome' = Return(has_live_sync_pair_value(vsa.live_sync_pairs, name))
    /\ request_json' = None
    /\ endpoint' = NoEndpoint
    /\ response' = NoResponse
    /\ nreq' = 0
    /\ repeated' = FALSE
    /\ UNCHANGED <<vs, input, vsa, pair, mysql>>

-----------------------------------------------------------------------------
(* LiveSyncPair: one live sync pair *)

\* the siteInfo entry of one pair, as the server reports it at two moments;
\* an entry may lack a key
PairVersion(n) ==
    [replicationGuid |-> Str(<<"guid", n>>),
     status |-> PyInt(n),
     sourceName |-> Str(<<"src", n>>),
     destinationName |-> Str(<<"dst", n>>)]
WithoutStatus(e) == [k \in DOMAIN e \ {"status"} |-> e[k]]
PairEntries ==
    {PairVersion(1), PairVersion(2),
     WithoutStatus(PairVersion(1)), WithoutStatus(PairVersion(2))}

\* answers of the GET_LIVE_SYNC_PAIR endpoint
PairResponses ==
    FailedResponses
    \cup {Success(Unparsable), Success(Json(EmptyBody)), Success(Json(OtherBody)),
          Success(Json([siteInfo |-> << >>]))}
    \cup {Success(Json([siteInfo |-> << e >>])) : e \in PairEntries}

Raised(p, e) == [pair |-> p, result |-> Raise(e)]

\* variant: the four derived values are read from the bag held before the
\* new bag is stored
set_live_sync_properties_stale(p, siteInfo) ==
    IF Len(siteInfo) = 0
    THEN Raised(p, PyError("IndexError"))
    ELSE
    LET e == siteInfo[1]
        old == p.properties
        p1 == [p EXCEPT !.properties = Dict(e)]
    IN  IF old.t = "None"
        THEN Raised(p1, PyError("TypeError"))
        ELSE IF DOMAIN old.v # DOMAIN PairVersion(1)
        THEN Raised(p1, PyError("KeyError"))
        ELSE [pair |-> [p1 EXCEPT !.replication_guid = old.v.replicationGuid,
                                  !.status = old.v.status,
                                  !.source_vm = old.v.sourceName,
                                  !.destination_vm = old.v.destinationName],
              result |-> Return(None)]

\* variant: the replication guid of the response is taken as the pair's id
set_live_sync_properties_rekeying(p, siteInfo) ==
    IF Len(siteInfo) = 0
    THEN Raised(p, PyError("IndexError"))
    ELSE
    LET e == siteInfo[1]
        p1 == [p EXCEPT !.properties = Dict(e)]
        p2 == [p1 EXCEPT !.replication_guid = e.replicationGuid,
                         !.live_sync_id = e.replicationGuid]
        p3 == [p2 EXCEPT !.status = e.status]
        p4 == [p3 EXCEPT !.source_vm = e.sourceName]
        p5 == [p4 EXCEPT !.destination_vm = e.destinationName]
    IN  IF "replicationGuid" \notin DOMAIN e THEN Raised(p1, PyError("KeyError"))
        ELSE IF "status" \notin DOMAIN e THEN Raised(p2, PyError("KeyError"))
        ELSE IF "sourceName" \notin DOMAIN e THEN Raised(p3, PyError("KeyError"))
        ELSE IF "destinationName" \notin DOMAIN e THEN Raised(p4, PyError("KeyError"))
        ELSE [pair |-> p5, result |-> Return(None)]

\* lines 412-416: the five assignments, each of which may raise
set_live_sync_properties(p, siteInfo) ==
    IF Len(siteInfo) = 0
    THEN Raised(p, PyError("IndexError"))
    ELSE
    LET e == siteInfo[1]
        p1 == [p EXCEPT !.properties = Dict(e)]
        p2 == [p1 EXCEPT !.replication_guid = e.replicationGuid]
        p3 == [p2 EXCEPT !.status = e.status]
        p4 == [p3 EXCEPT !.source_vm = e.sourceName]
        p5 == [p4 EXCEPT !.destination_vm = e.destinationName]
    IN  IF "replicationGuid" \notin DOMAIN e THEN Raised(p1, PyError("KeyError"))
        ELSE IF "status" \notin DOMAIN e THEN Raised(p2, PyError("KeyError"))
        ELSE IF "sourceName" \notin DOMAIN e THEN Raised(p3, PyError("KeyError"))
        ELSE IF "destinationName" \notin DOMAIN e THEN Raised(p4, PyError("KeyError"))
        ELSE [pair |-> p5, result |-> Return(None)]

\* LiveSyncPair._get_live_sync_properties on the object p: the object
\* afterwards, and the value returned or the exception raised
get_live_sync_properties(p, r) ==
    IF r.flag
    THEN IF ~r.body.ok
         THEN Raised(p, PyError("ValueError"))
         ELSE IF DOMAIN r.body.v = {}
              THEN [pair |-> p, result |-> Return(None)]
              ELSE IF "siteInfo" \in DOMAIN r.body.v
                   THEN set_live_sync_properties(p, r.body.v.siteInfo)
                   ELSE Raised(p, SDKException("Response", "102", NoMessage))
    ELSE Raised(p, SDKException("Response", "101", update_response(r.text)))

\* lines 356-378: the object as it is before the constructor's refresh()
new_live_sync_pair(live_sync_name, live_sync_id) ==
    [t |-> "LiveSyncPair",
     live_sync_name |-> lower(live_sync_name),
     live_sync_id |-> live_sync_id,
     LIVE_SYNC_PAIR |-> GET_LIVE_SYNC_PAIR(subclient_id, live_sync_id),
     properties |-> None,
     replication_guid |-> None,
     status |-> None,
     source_vm |-> None,
     destination_vm |-> None]

\* LiveSyncPair(subclient, name, id) with an id: the object, and the
\* constructor's result
construct_live_sync_pair(live_sync_name, live_sync_id, r) ==
    get_live_sync_properties(new_live_sync_pair(live_sync_name, live_sync_id), r)

\* VsaLiveSync.get: no request is made unless the pair's constructor is reached
vsa_get(live_sync_pairs, live_sync_name, r) ==
    IF truthy(has_live_sync_pair_value(live_sync_pairs, live_sync_name))
    THEN IF live_sync_name \in DOMAIN live_sync_pairs.v
         THEN [construct_live_sync_pair(
                   live_sync_name, Str(live_sync_pairs.v[live_sync_name].id), r)
               EXCEPT !.result = IF @.kind = "raise" THEN @ ELSE Return(Str("LiveSyncPair"))]
              @@ [nreq |-> 1]
         ELSE Raised(None, PyError("KeyError")) @@ [nreq |-> 0]
    ELSE Raised(None, SDKException("LiveSync", "102", <<"No Live Sync exists", live_sync_name>>))
         @@ [nreq |-> 0]

\* whether get(name) reaches the LiveSyncPair constructor, which sends a request
get_sends(live_sync_pairs, live_sync_name) ==
    vsa_get(live_sync_pairs, live_sync_name, NoResponse).nreq = 1

get(name) ==
    /\ vsa.t = "VsaLiveSync"
    /\ call' = [op |-> "get", live_sync_name |-> name]
    /\ \E r \in IF get_sends(vsa.live_sync_pairs, name) THEN PairResponses ELSE {NoResponse} :
         LET got == vsa_get(vsa.live_sync_pairs, name, r)
         IN  /\ outcome' = got.result
             /\ nreq' = got.nreq
             /\ response' = r
             /\ endpoint' = IF got.nreq = 0 THEN NoEndpoint ELSE got.pair.LIVE_SYNC_PAIR
             /\ pair' = IF got.result.kind = "raise" THEN pair ELSE got.pair
    /\ request_json' = None
    /\ repeated' = FALSE
    /\ UNCHANGED <<vs, input, vsa, mysql>>

\* the ids a caller passes to the constructor
PairIds == {None, Str("9")}

\* LiveSyncPair._get_live_sync_id: subclient.live_sync.get(name).live_sync_id,
\* where get constructs a LiveSyncPair of its own (answered by r)
get_live_sync_id(live_sync_pairs, live_sync_name, r) ==
    LET got == vsa_get(live_sync_pairs, live_sync_name, r)
    IN  IF got.result.kind = "raise"
        THEN got
        ELSE [got EXCEPT !.result = Return(got.pair.live_sync_id)]

\* variant: the id is looked up in the parent collection even when the caller
\* supplied one
live_sync_pair_init_always_resolving(live_sync_pairs, live_sync_name, live_sync_id, r1, r2) ==
    LET resolved == get_live_sync_id(live_sync_pairs, lower(live_sync_name), r1)
    IN  IF resolved.result.kind = "raise"
        THEN [pair |-> None, result |-> resolved.result,
              nreq |-> resolved.nreq,
              last |-> IF resolved.nreq = 0 THEN NoResponse ELSE r1]
        ELSE construct_live_sync_pair(live_sync_name, resolved.result.value, r2)
             @@ [nreq |-> resolved.nreq + 1, last |-> r2]

\* LiveSyncPair.__init__(subclient, name, id): r1 answers the request made
\* while the id is resolved, r2 the constructor's own refresh()
\* (line 367, live_sync_id or self._get_live_sync_id(): the ids a caller
\* passes here are None or a non-empty string)
live_sync_pair_init(live_sync_pairs, live_sync_name, live_sync_id, r1, r2) ==
    IF live_sync_id.t # "None"
    THEN construct_live_sync_pair(live_sync_name, live_sync_id, r2)
         @@ [nreq |-> 1, last |-> r2]
    ELSE LET resolved == get_live_sync_id(live_sync_pairs, lower(live_sync_name), r1)
         IN  IF resolved.result.kind = "raise"
             THEN [pair |-> None, result |-> resolved.result,
                   nreq |-> resolved.nreq,
                   last |-> IF resolved.nreq = 0 THEN NoResponse ELSE r1]
             ELSE construct_live_sync_pair(live_sync_name, resolved.result.value, r2)
                  @@ [nreq |-> resolved.nreq + 1, last |-> r2]

LiveSyncPair_init(name, id) ==
    /\ id.t = "None" => vsa.t = "VsaLiveSync"
    /\ call' = [op |-> "LiveSyncPair.__init__", live_sync_name |-> name,
                live_sync_id |-> id]
    /\ LET pairs == IF vsa.t = "VsaLiveSync" THEN vsa.live_sync_pairs ELSE None
           resolves == id.t = "None" /\ get_sends(pairs, lower(name))
       IN  \E r1 \in IF resolves THEN PairResponses ELSE {NoResponse} :
           \E r2 \in IF id.t = "None"
                        /\ get_live_sync_id(pairs, lower(name), r1).result.kind = "raise"
                     THEN {NoResponse} ELSE PairResponses :
             LET got == live_sync_pair_init(pairs, name, id, r1, r2)
             IN  /\ outcome' = IF got.result.kind = "raise" THEN got.result ELSE Return(None)
                 /\ nreq' = got.nreq
                 /\ response' = got.last
                 /\ endpoint' = IF got.nreq = 0
                                THEN NoEndpoint
                                ELSE IF got.pair.t = "LiveSyncPair"
                                THEN got.pair.LIVE_SYNC_PAIR
                                ELSE GET_LIVE_SYNC_PAIR(subclient_id,
                                         Str(pairs.v[lower(name)].id))
                 /\ pair' = IF got.result.kind = "raise" THEN pair ELSE got.pair
    /\ request_json' = None
    /\ repeated' = FALSE
    /\ UNCHANGED <<vs, input, vsa, mysql>>

\* variant: a failed query is sent a second time
LiveSyncPair_refresh_retrying(r) ==
    /\ pair.t = "LiveSyncPair"
    /\ call' = [op |-> "LiveSyncPair.refresh"]
    /\ request_json' = None
    /\ endpoint' = pair.LIVE_SYNC_PAIR
    /\ response' = r
    /\ nreq' = IF r.flag THEN 1 ELSE 2
    /\ LET got == get_live_sync_properties(pair, r)
       IN  /\ outcome' = got.result
           /\ pair' = got.pair
    /\ repeated' = (call.op = "LiveSyncPair.refresh" /\ response = r)
    /\ UNCHANGED <<vs, input, vsa, mysql>>

\* LiveSyncPair.refresh
LiveSyncPair_refresh(r) ==
    /\ pair.t = "LiveSyncPair"
    /\ call' = [op |-> "LiveSyncPair.refresh"]
    /\ request_json' = None
    /\ endpoint' = pair.LIVE_SYNC_PAIR
    /\ response' = r
    /\ nreq' = 1
    /\ LET got == get_live_sync_properties(pair, r)
       IN  /\ outcome' = got.result
           /\ pair' = got.pair
    /\ repeated' = (call.op = "LiveSyncPair.refresh" /\ response = r)
    /\ UNCHANGED <<vs, input, vsa, mysql>>


\* constants.VSALiveSyncStatus, an enumeration of integer status codes:
\* sync_status(value).name looks the member up by its value and fails with
\* ValueError when no member has that value
StatusCodes == {PairVersion(1).status, PairVersion(2).status}
sync_status_name(value) ==
    IF value \in StatusCodes
    THEN Return(Str(<<"STATUS", value.v>>))
    ELSE Raise(PyError("ValueError"))

\* reading a property of the LiveSyncPair object: nothing but the result of
\* the call changes
pair_accessor(name, result) ==
    /\ pair.t = "LiveSyncPair"
    /\ call' = [op |-> name]
    /\ outcome' = result
    /\ request_json' = None
    /\ response' = NoResponse
    /\ nreq' = 0
    /\ endpoint' = NoEndpoint
    /\ repeated' = FALSE
    /\ UNCHANGED <<vs, input, vsa, pair, mysql>>

live_sync_id == pair_accessor("live_sync_id", Return(pair.live_sync_id))
live_sync_name == pair_accessor("live_sync_name", Return(Str(pair.live_sync_name)))
replication_guid == pair_accessor("replication_guid", Return(pair.replication_guid))
source_vm == pair_accessor("source_vm", Return(pair.source_vm))
destination_vm == pair_accessor("destination_vm", Return(pair.destination_vm))
status == pair_accessor("status", sync_status_name(pair.status))

-----------------------------------------------------------------------------
(* MYSQLInstance: property accessors and the restore request *)

\* dict.get(key, default) on a dict held as a function
Get(d, key, default) == IF key \in DOMAIN d THEN d[key] ELSE default

\* truth value of a Python value
truth(x) ==
    CASE x.t = "bool" -> x.v
      [] x.t = "None" -> FALSE
      [] x.t = "str" -> x.v # ""
      [] x.t = "int" -> x.v # 0
      [] x.t = "list" -> Len(x.v) > 0
      [] x.t = "dict" -> DOMAIN x.v # {}
      [] OTHER -> TRUE

\* a key that a mapping does not hold
Absent == [t |-> "absent"]
\* the mapping whose keys are those that are not marked absent
Present(f) == [k \in {x \in DOMAIN f : f[x] # Absent} |-> f[k]]

client_name == Str("client1")
instance_name == Str("mysql1")

\* variant: the table-level flags are set only when no clone is asked for
mysql_option_json_unless_clone(value) ==
    IF value.t # "dict"
    THEN Raise(SDKException("Instance", "101", NoMessage))
    ELSE
    LET v == value.v
        json == [destinationFolder |-> Str(""),
                 data |-> Get(v, "data_restore", Bool(TRUE)),
                 log |-> Get(v, "log_restore", Bool(TRUE)),
                 recurringRestore |-> Bool(FALSE),
                 temporaryStagingLocation |-> Get(v, "staging", Str("")),
                 dataStagingLocation |-> Str(""),
                 logRestoreType |-> PyInt(0),
                 tableLevelRestore |-> Get(v, "table_level_restore", Bool(FALSE)),
                 pointofTime |-> Bool(FALSE),
                 instanceRestore |-> Bool(TRUE),
                 isCloneRestore |-> Get(v, "clone_env", Bool(FALSE)),
                 fromTime |-> Get(v, "from_time", Dict(<< >>)),
                 refTime |-> Get(v, "to_time", Dict(<< >>)),
                 destinationServer |-> Dict([name |-> Str("")])]
    IN  IF truth(Get(v, "clone_env", Bool(FALSE)))
        THEN Return(Dict(Put(json, "cloneOptions", Get(v, "clone_options", Str("")))))
        ELSE IF truth(Get(v, "table_level_restore", None))
        THEN Return(Dict(Put(Put(json, "dropTable", Bool(TRUE)),
                             "instanceRestore", Bool(FALSE))))
        ELSE Return(Dict(json))

\* lines 437-466: the dict stored in mysql_restore_json, or the exception
mysql_option_json(value) ==
    IF value.t # "dict"
    THEN Raise(SDKException("Instance", "101", NoMessage))
    ELSE
    LET v == value.v
        json == [destinationFolder |-> Str(""),
                 data |-> Get(v, "data_restore", Bool(TRUE)),
                 log |-> Get(v, "log_restore", Bool(TRUE)),
                 recurringRestore |-> Bool(FALSE),
                 temporaryStagingLocation |-> Get(v, "staging", Str("")),
                 dataStagingLocation |-> Str(""),
                 logRestoreType |-> PyInt(0),
                 tableLevelRestore |-> Get(v, "table_level_restore", Bool(FALSE)),
                 pointofTime |-> Bool(FALSE),
                 instanceRestore |-> Bool(TRUE),
                 isCloneRestore |-> Get(v, "clone_env", Bool(FALSE)),
                 fromTime |-> Get(v, "from_time", Dict(<< >>)),
                 refTime |-> Get(v, "to_time", Dict(<< >>)),
                 destinationServer |-> Dict([name |-> Str("")])]
        table == IF truth(Get(v, "table_level_restore", None))
                 THEN Put(Put(json, "dropTable", Bool(TRUE)),
                          "instanceRestore", Bool(FALSE))
                 ELSE json
        clone == IF truth(Get(v, "clone_env", Bool(FALSE)))
                 THEN Put(table, "cloneOptions", Get(v, "clone_options", Str("")))
                 ELSE table
    IN  Return(Dict(clone))

\* lines 425-435: the dict stored in admin_option_json, or the exception
admin_option_json(value) ==
    IF value.t # "dict"
    THEN Raise(SDKException("Instance", "101", NoMessage))
    ELSE Return(Dict([contentIndexingOption |->
                         Dict([subClientBasedAnalytics |-> Bool(FALSE)])]))

\* variant: the common options are stored without looking at the value
commonoption_restore_json_unchecked(value) ==
    Return(Dict([restoreToDisk |-> Bool(FALSE), onePassRestore |-> Bool(FALSE),
                 revert |-> Bool(FALSE), syncRestore |-> Bool(FALSE)]))

\* lines 385-396: the dict stored in _commonoption_restore_json
commonoption_restore_json(value) ==
    IF value.t # "dict"
    THEN Raise(SDKException("Instance", "101", NoMessage))
    ELSE Return(Dict([restoreToDisk |-> Bool(FALSE), onePassRestore |-> Bool(FALSE),
                      revert |-> Bool(FALSE), syncRestore |-> Bool(FALSE)]))

\* lines 398-413: the dict stored in _destination_restore_json
destination_restore_json(value) ==
    IF value.t # "dict"
    THEN Raise(SDKException("Instance", "101", NoMessage))
    ELSE Return(Dict(
            [destinationInstance |->
                Dict([clientName |-> Get(value.v, "dest_client_name", Str("")),
                      instanceName |-> Get(value.v, "dest_instance_name", Str("")),
                      appName |-> Str("MySQL")]),
             destClient |->
                Dict([clientName |-> Get(value.v, "dest_client_name", Str(""))])]))

\* lines 415-423: the dict stored in _fileoption_restore_json
fileoption_restore_json(value) ==
    IF value.t # "dict"
    THEN Raise(SDKException("Instance", "101", NoMessage))
    ELSE Return(Dict([sourceItem |-> Get(value.v, "paths", List(<< >>))]))

\* the browse options the Instance base class builds from the restore options
base_browse_option_json(value) ==
    [commCellId |-> PyInt(2),
     timeRange |-> Dict([fromTime |-> Get(value.v, "from_time", None),
                         toTime |-> Get(value.v, "to_time", None)])]

\* lines 374-383: the dict stored in _browse_restore_json
browse_restore_json(value) ==
    IF value.t # "dict"
    THEN Raise(SDKException("Instance", "101", NoMessage))
    ELSE Return(Dict(Put(base_browse_option_json(value), "backupset",
                         Dict([clientName |-> client_name,
                               backupsetName |-> Str("defaultDummyBackupSet")]))))

\* lines 94-102: the object as __init__ leaves it, holding the property
\* snapshot the base class fetched
MYSQLInstance(properties) ==
    [t |-> "MYSQLInstance",
     properties |-> properties,
     browse_restore_json |-> None,
     commonoption_restore_json |-> None,
     destination_restore_json |-> None,
     fileoption_restore_json |-> None,
     admin_option_json |-> None,
     mysql_restore_json |-> None]

\* variant: only from_time is given its default
normalize_times_from_only(restore_option) ==
    [k \in DOMAIN restore_option |->
        IF k = "from_time" /\ restore_option[k].t = "None"
        THEN Dict(<< >>)
        ELSE restore_option[k]]

\* lines 230-234: from_time and to_time of the restore options, None replaced
\* by the empty dict
normalize_times(restore_option) ==
    [k \in DOMAIN restore_option |->
        IF k \in {"from_time", "to_time"} /\ restore_option[k].t = "None"
        THEN Dict(<< >>)
        ELSE restore_option[k]]

\* the request the Instance base class composes from the four leaves it owns
base_restore_json(browse, common, destination, fileoption) ==
    [taskInfo |->
        [associations |-> << [instanceName |-> instance_name, appName |-> Str("MySQL"),
                              clientName |-> client_name] >>,
         task |-> [taskType |-> 1, initiatedFrom |-> 1],
         subTasks |-> <<
            [subTask |-> [subTaskType |-> 3, operationType |-> 1001],
             options |-> [restoreOptions |->
                [browseOption |-> browse,
                 commonOptions |-> common,
                 destination |-> destination,
                 fileOption |-> fileoption]]]
         >>]]

\* lines 210-241: MYSQLInstance._restore_json(**kwargs) on the object m: the
\* object afterwards and the request returned
restore_json(m, kwargs) ==
    LET value == Dict(kwargs)
        browse == browse_restore_json(value).value
        common == commonoption_restore_json(value).value
        destination == destination_restore_json(value).value
        fileoption == fileoption_restore_json(value).value
        rest_json == base_restore_json(browse, common, destination, fileoption)
        restore_option == Dict(normalize_times(kwargs))
        admin == admin_option_json(restore_option).value
        mysql_opt == mysql_option_json(restore_option).value
        options == rest_json.taskInfo.subTasks[1].options
    IN  [mysql |-> [m EXCEPT !.browse_restore_json = browse,
                             !.commonoption_restore_json = common,
                             !.destination_restore_json = destination,
                             !.fileoption_restore_json = fileoption,
                             !.admin_option_json = admin,
                             !.mysql_restore_json = mysql_opt],
         request |->
            [rest_json EXCEPT !.taskInfo.subTasks[1].options =
                [restoreOptions |-> Put(options.restoreOptions, "mySqlRstOption", mysql_opt),
                 adminOpts |-> admin]]]

\* variant: only the types are checked
restore_validate_types_only(a) ==
    IF ~(a.path.t = "list" /\ a.overwrite.t = "bool")
    THEN SDKException("Instance", "101", NoMessage)
    ELSE None

\* lines 349-354: the exception raised before the request is built, or None
restore_validate(a) ==
    IF ~(a.path.t = "list" /\ a.overwrite.t = "bool")
    THEN SDKException("Instance", "101", NoMessage)
    ELSE IF a.path = List(<< >>)
    THEN SDKException("Instance", "104", NoMessage)
    ELSE None

\* lines 356-370: the keyword arguments handed to _restore_json
restore_kwargs(a) ==
    [paths |-> a.path,
     staging |-> a.staging,
     dest_client_name |-> a.dest_client_name,
     dest_instance_name |-> a.dest_instance_name,
     data_restore |-> a.data_restore,
     log_restore |-> a.log_restore,
     overwrite |-> a.overwrite,
     copy_precedence |-> a.copy_precedence,
     from_time |-> a.from_time,
     to_time |-> a.to_time,
     media_agent |-> a.media_agent,
     table_level_restore |-> a.table_level_restore,
     clone_env |-> a.clone_env,
     clone_options |-> a.clone_options]

RESTORE == [service |-> "RESTORE"]

\* answers of the RESTORE endpoint
RestoreResponses ==
    FailedResponses
    \cup {Success(Json(EmptyBody)), Success(Json(OtherBody)),
          Success(Json([jobIds |-> << 42 >>]))}

\* Instance._process_restore_response: submits the request and turns the
\* answer into a Job or an exception
process_restore_response(r) ==
    IF r.flag
    THEN IF DOMAIN r.body.v # {}
         THEN IF "jobIds" \in DOMAIN r.body.v
              THEN Return(Job(r.body.v.jobIds[1]))
              ELSE Raise(SDKException("Instance", "102", NoMessage))
         ELSE Raise(SDKException("Response", "102", NoMessage))
    ELSE Raise(SDKException("Response", "101", update_response(r.text)))

CloneOptions == Dict([port |-> Str("5595"), forceCleanup |-> Bool(TRUE)])
TimeValue(n) == Dict([time |-> PyInt(n)])

RestoreArgs ==
    {[op |-> "restore_in_place",
      path |-> path,
      staging |-> staging,
      dest_client_name |-> dest,
      dest_instance_name |-> dest,
      data_restore |-> Bool(data),
      log_restore |-> Bool(~data),
      overwrite |-> overwrite,
      copy_precedence |-> None,
      from_time |-> from_time,
      to_time |-> to_time,
      media_agent |-> None,
      table_level_restore |-> Bool(table),
      clone_env |-> Bool(clone),
      clone_options |-> clone_options] :
        path \in {None, Str("/db1"), List(<< >>), List(<< Str("/db1") >>)},
        overwrite \in {Bool(TRUE), Bool(FALSE), None, PyInt(1)},
        staging \in {None, Str("/stage")},
        dest \in {None, Str("client2")},
        data \in BOOLEAN,
        from_time \in {None, TimeValue(100)},
        to_time \in {None, TimeValue(200)},
        table \in BOOLEAN,
        clone \in BOOLEAN,
        clone_options \in {None, CloneOptions}}

restore_in_place(a, r) ==
    /\ a.op = "restore_in_place"
    /\ mysql.t = "MYSQLInstance"
    /\ call' = a
    /\ IF restore_validate(a).t # "None"
       THEN /\ outcome' = Raise(restore_validate(a))
            /\ request_json' = None
            /\ response' = NoResponse
            /\ nreq' = 0
            /\ endpoint' = NoEndpoint
            /\ mysql' = mysql
       ELSE LET built == restore_json(mysql, restore_kwargs(a))
            IN  /\ request_json' = built.request
                /\ mysql' = built.mysql
                /\ response' = r
                /\ nreq' = 1
                /\ endpoint' = RESTORE
                /\ outcome' = process_restore_response(r)
    /\ repeated' = FALSE
    /\ UNCHANGED <<vs, input, vsa, pair>>

\* the mappings handed to _restore_mysql_option_json: every key may be absent
OptionValues ==
    {Dict(Present(c)) : c \in
        [data_restore : {Absent, Bool(TRUE), Bool(FALSE)},
         log_restore : {Absent, Bool(TRUE), Bool(FALSE)},
         staging : {Absent, Str("/stage")},
         table_level_restore : {Absent, Bool(TRUE), Bool(FALSE)},
         clone_env : {Absent, Bool(TRUE), Bool(FALSE)},
         clone_options : {Absent, CloneOptions},
         from_time : {Absent, Dict(<< >>), TimeValue(100)},
         to_time : {Absent, Dict(<< >>), TimeValue(200)}]}

OptionArgs ==
    {[op |-> "_restore_mysql_option_json", value |-> v] :
        v \in OptionValues \cup {None, Str("table_level_restore")}}

\* MYSQLInstance._restore_mysql_option_json(value)
restore_mysql_option_json(a) ==
    /\ a.op = "_restore_mysql_option_json"
    /\ mysql.t = "MYSQLInstance"
    /\ call' = a
    /\ LET built == mysql_option_json(a.value)
       IN  IF built.kind = "raise"
           THEN /\ outcome' = built
                /\ mysql' = mysql
           ELSE /\ outcome' = Return(None)
                /\ mysql' = [mysql EXCEPT !.mysql_restore_json = built.value]
    /\ request_json' = None
    /\ response' = NoResponse
    /\ nreq' = 0
    /\ endpoint' = NoEndpoint
    /\ repeated' = FALSE
    /\ UNCHANGED <<vs, input, vsa, pair>>

\* a restore sub-builder called on its own: built is the dict it stores in
\* the leaf it owns, or the exception it raises before storing anything
sub_builder(a, leaf, built) ==
    /\ mysql.t = "MYSQLInstance"
    /\ call' = a
    /\ IF built.kind = "raise"
       THEN /\ outcome' = built
            /\ mysql' = mysql
       ELSE /\ outcome' = Return(None)
            /\ mysql' = [mysql EXCEPT ![leaf] = built.value]
    /\ request_json' = None
    /\ response' = NoResponse
    /\ nreq' = 0
    /\ endpoint' = NoEndpoint
    /\ repeated' = FALSE
    /\ UNCHANGED <<vs, input, vsa, pair>>

\* MYSQLInstance._restore_browse_option_json(value)
restore_browse_option_json(value) ==
    sub_builder([op |-> "_restore_browse_option_json", value |-> value],
                "browse_restore_json", browse_restore_json(value))

\* MYSQLInstance._restore_common_options_json(value)
restore_common_options_json(value) ==
    sub_builder([op |-> "_restore_common_options_json", value |-> value],
                "commonoption_restore_json", commonoption_restore_json(value))

\* MYSQLInstance._restore_destination_json(value)
restore_destination_json(value) ==
    sub_builder([op |-> "_restore_destination_json", value |-> value],
                "destination_restore_json", destination_restore_json(value))

\* MYSQLInstance._restore_fileoption_json(value)
restore_fileoption_json(value) ==
    sub_builder([op |-> "_restore_fileoption_json", value |-> value],
                "fileoption_restore_json", fileoption_restore_json(value))

\* MYSQLInstance._restore_admin_option_json(value)
restore_admin_option_json(value) ==
    sub_builder([op |-> "_restore_admin_option_json", value |-> value],
                "admin_option_json", admin_option_json(value))

\* the values a sub-builder is called with: a mapping, and values that are
\* not mappings
BuilderValues ==
    {None, Str("paths"), List(<< Str("/db1") >>),
     Dict([paths |-> List(<< Str("/db2") >>),
           dest_client_name |-> Str("client3"),
           dest_instance_name |-> Str("mysql3"),
           table_level_restore |-> Bool(TRUE),
           from_time |-> TimeValue(300)])}

\* the property snapshot with every key the accessors read
FullProperties ==
    Dict([instance |-> Dict([instanceName |-> instance_name]),
          mySqlInstance |->
            Dict([port |-> Str("3306"),
                  SAUser |-> Dict([userName |-> Str("root")]),
                  NTUser |-> Dict([userName |-> Str("ntadmin")]),
                  ConfigFile |-> Str("/etc/my.cnf"),
                  BinaryDirectory |-> Str("/usr/bin"),
                  version |-> Str("5.7"),
                  LogDataDirectory |-> Str("/var/log/mysql"),
                  logStoragePolicy |->
                      Dict([storagePolicyName |-> Str("sp1"), storagePolicyId |-> PyInt(11)]),
                  mysqlStorageDevice |->
                      Dict([commandLineStoragePolicy |->
                          Dict([storagePolicyName |-> Str("sp2"),
                                storagePolicyId |-> PyInt(12)])]),
                  EnableAutoDiscovery |-> Bool(TRUE),
                  proxySettings |->
                      Dict([isUseSSL |-> Bool(TRUE),
                            isProxyEnabled |-> Bool(TRUE),
                            runBackupOnProxy |-> Bool(FALSE),
                            proxyInstance |-> Dict([instanceId |-> PyInt(5)])])])])

\* the paths of the keys at and below mySqlInstance
PropertyPaths ==
    {<<"mySqlInstance">>}
    \cup {<<"mySqlInstance", k>> : k \in DOMAIN FullProperties.v.mySqlInstance.v}
    \cup {<<"mySqlInstance", "SAUser", "userName">>,
          <<"mySqlInstance", "NTUser", "userName">>,
          <<"mySqlInstance", "logStoragePolicy", "storagePolicyName">>,
          <<"mySqlInstance", "logStoragePolicy", "storagePolicyId">>,
          <<"mySqlInstance", "mysqlStorageDevice", "commandLineStoragePolicy">>,
          <<"mySqlInstance", "mysqlStorageDevice", "commandLineStoragePolicy",
            "storagePolicyName">>,
          <<"mySqlInstance", "mysqlStorageDevice", "commandLineStoragePolicy",
            "storagePolicyId">>,
          <<"mySqlInstance", "proxySettings", "isUseSSL">>,
          <<"mySqlInstance", "proxySettings", "isProxyEnabled">>,
          <<"mySqlInstance", "proxySettings", "runBackupOnProxy">>,
          <<"mySqlInstance", "proxySettings", "proxyInstance">>,
          <<"mySqlInstance", "proxySettings", "proxyInstance", "instanceId">>}

\* the dict d with the key at the path removed (leaf = Absent) or holding
\* leaf; d itself when it has no such key
RECURSIVE AtPath(_, _, _)
AtPath(d, path, leaf) ==
    IF d.t # "dict" \/ path[1] \notin DOMAIN d.v
    THEN d
    ELSE IF Len(path) = 1
    THEN IF leaf = Absent
         THEN Dict([k \in DOMAIN d.v \ {path[1]} |-> d.v[k]])
         ELSE Dict([d.v EXCEPT ![path[1]] = leaf])
    ELSE Dict([d.v EXCEPT ![path[1]] = AtPath(d.v[path[1]], Tail(path), leaf)])

\* the snapshots the server may have answered with: up to two keys are
\* absent, or one key holds null
PropertySnapshots ==
    {AtPath(AtPath(FullProperties, p, Absent), q, Absent) :
        p \in PropertyPaths, q \in PropertyPaths}
    \cup {FullProperties}
    \cup {AtPath(FullProperties, p, None) : p \in PropertyPaths}

\* variant: the intermediate .get calls have no {} default
RECURSIVE get_path_no_default(_, _, _)
get_path_no_default(d, path, default) ==
    IF d.t # "dict"
    THEN Raise(PyError("AttributeError"))
    ELSE IF Len(path) = 1
    THEN Return(Get(d.v, path[1], default))
    ELSE get_path_no_default(Get(d.v, path[1], None), Tail(path), default)

\* d.get(k1, {}).get(k2, {}) ... .get(kn, default): the value, or the
\* AttributeError raised when .get is called on a value that is not a dict
RECURSIVE get_path(_, _, _)
get_path(d, path, default) ==
    IF d.t # "dict"
    THEN Raise(PyError("AttributeError"))
    ELSE IF Len(path) = 1
    THEN Return(Get(d.v, path[1], default))
    ELSE get_path(Get(d.v, path[1], Dict(<< >>)), Tail(path), default)

\* a dict literal whose values are the results of get chains: the dict, or
\* the exception one of the chains raised
dict_of(fields) ==
    IF \E k \in DOMAIN fields : fields[k].kind = "raise"
    THEN Raise(PyError("AttributeError"))
    ELSE Return(Dict([k \in DOMAIN fields |-> fields[k].value]))

port_value(p) == get_path(p, <<"mySqlInstance", "port">>, None)
mysql_username_value(p) == get_path(p, <<"mySqlInstance", "SAUser", "userName">>, None)
nt_username_value(p) == get_path(p, <<"mySqlInstance", "NTUser", "userName">>, None)
config_file_value(p) == get_path(p, <<"mySqlInstance", "ConfigFile">>, None)
binary_directory_value(p) == get_path(p, <<"mySqlInstance", "BinaryDirectory">>, None)
version_value(p) == get_path(p, <<"mySqlInstance", "version">>, None)
log_data_directory_value(p) == get_path(p, <<"mySqlInstance", "LogDataDirectory">>, None)
log_backup_sp_details_value(p) ==
    dict_of([storagePolicyName |->
                get_path(p, <<"mySqlInstance", "logStoragePolicy", "storagePolicyName">>, None),
             storagePolicyId |->
                get_path(p, <<"mySqlInstance", "logStoragePolicy", "storagePolicyId">>, None)])
command_line_sp_details_value(p) ==
    dict_of([storagePolicyName |->
                get_path(p, <<"mySqlInstance", "mysqlStorageDevice",
                              "commandLineStoragePolicy", "storagePolicyName">>, None),
             storagePolicyId |->
                get_path(p, <<"mySqlInstance", "mysqlStorageDevice",
                              "commandLineStoragePolicy", "storagePolicyId">>, None)])
autodiscovery_enabled_value(p) ==
    get_path(p, <<"mySqlInstance", "EnableAutoDiscovery">>, Bool(FALSE))
proxy_options_value(p) ==
    dict_of([isUseSSL |->
                get_path(p, <<"mySqlInstance", "proxySettings", "isUseSSL">>, None),
             isProxyEnabled |->
                get_path(p, <<"mySqlInstance", "proxySettings", "isProxyEnabled">>, None),
             runBackupOnProxy |->
                get_path(p, <<"mySqlInstance", "proxySettings", "runBackupOnProxy">>, None),
             instanceId |->
                get_path(p, <<"mySqlInstance", "proxySettings", "proxyInstance",
                              "instanceId">>, None)])

\* reading a property of the MYSQLInstance object: nothing but the result
\* of the call changes
accessor(name, result) ==
    /\ mysql.t = "MYSQLInstance"
    /\ call' = [op |-> name]
    /\ outcome' = result
    /\ request_json' = None
    /\ response' = NoResponse
    /\ nreq' = 0
    /\ endpoint' = NoEndpoint
    /\ repeated' = FALSE
    /\ UNCHANGED <<vs, input, vsa, pair, mysql>>

port == accessor("port", port_value(mysql.properties))
mysql_username == accessor("mysql_username", mysql_username_value(mysql.properties))
nt_username == accessor("nt_username", nt_username_value(mysql.properties))
config_file == accessor("config_file", config_file_value(mysql.properties))
binary_directory == accessor("binary_directory", binary_directory_value(mysql.properties))
version == accessor("version", version_value(mysql.properties))
log_data_directory ==
    accessor("log_data_directory", log_data_directory_value(mysql.properties))
log_backup_sp_details ==
    accessor("log_backup_sp_details", log_backup_sp_details_value(mysql.properties))
command_line_sp_details ==
    accessor("command_line_sp_details", command_line_sp_details_value(mysql.properties))
autodiscovery_enabled ==
    accessor("autodiscovery_enabled", autodiscovery_enabled_value(mysql.properties))
proxy_options == accessor("proxy_options", proxy_options_value(mysql.properties))

-----------------------------------------------------------------------------
(* VsaLiveSync._configure_live_sync: the live sync schedule request *)

\* str(uuid.uuid1()): a fresh identifier at every call
Guids == {"guid-a", "guid-b"}

ScheduleNames == {"nightly", "Weekly"}

\* the restore options a caller hands over
LiveSyncOptions ==
    {[destination_client |-> "esx2"],
     [destination_client |-> "esx2", replication_guid |-> "guid-old"]}

\* the schedule patterns a caller hands over
PatternDicts ==
    {None, Dict(<< >>), Dict([freq_type |-> "daily", repeat_days |-> 1])}

\* the subclient's _prepare_fullvm_restore_json: a restore task of one
\* subtask, carrying the replication guid of the options
prepare_fullvm_restore_json(restore_options) ==
    [taskInfo |->
        [task |-> [taskType |-> "IMMEDIATE"],
         subTasks |-> <<
            [subTask |-> [subTaskType |-> "RESTORE", operationType |-> "RESTORE"],
             options |-> [destination_client |-> restore_options.destination_client,
                          replicationGuid |-> restore_options.replication_guid]] >>]]

\* what the schedule pattern collaborator leaves in subTasks[0].subTask:
\* the descriptor it found, one it renamed, or one of its own
Placements == {"kept", "renamed", "replaced"}

placed_subtask(subTask, placement) ==
    CASE placement = "kept" -> subTask
      [] placement = "renamed" ->
            [k \in DOMAIN subTask \cup {"subTaskName"} |->
                IF k = "subTaskName" THEN "" ELSE subTask[k]]
      [] placement = "replaced" ->
            [subTaskType |-> "SCHEDULE", operationType |-> "RESTORE",
             subTaskName |-> "pattern"]

\* SchedulePattern.create_schedule(task_req, pattern_dict): the task with
\* the pattern injected, turned into a scheduled task
create_schedule(task_req, pattern_dict, placement) ==
    [task_req EXCEPT
        !.taskInfo.task.taskType = "SCHEDULE",
        !.taskInfo.subTasks[1] =
            [subTask |-> placed_subtask(@.subTask, placement),
             options |-> @.options,
             pattern |-> pattern_dict.v]]

\* lines 193-205
live_sync_subtask_json(schedule_name) ==
    [subTaskType |-> "RESTORE",
     operationType |-> "SITE_REPLICATION",
     subTaskName |-> schedule_name]

\* variant: the subtask descriptor is written before the schedule pattern is
\* injected
configure_live_sync_json_descriptor_first(schedule_name, restore_options, pattern_dict, guid, placement) ==
    LET options == Put(restore_options, "replication_guid", guid)
        request == prepare_fullvm_restore_json(options)
        described == [request EXCEPT !.taskInfo.subTasks[1].subTask =
                                         live_sync_subtask_json(schedule_name)]
    IN  create_schedule(
            described,
            IF truth(pattern_dict) THEN pattern_dict
            ELSE Dict([freq_type |-> "after_job_completes"]),
            placement)

\* lines 263-273: the request _configure_live_sync hands to
\* _process_restore_response
configure_live_sync_json(schedule_name, restore_options, pattern_dict, guid, placement) ==
    LET options == Put(restore_options, "replication_guid", guid)
        request == prepare_fullvm_restore_json(options)
        scheduled == create_schedule(
                         request,
                         IF truth(pattern_dict) THEN pattern_dict
                         ELSE Dict([freq_type |-> "after_job_completes"]),
                         placement)
    IN  [scheduled EXCEPT !.taskInfo.subTasks[1].subTask =
                              live_sync_subtask_json(schedule_name)]

\* the subclient's _process_restore_response: submits the request and turns
\* the answer into a Job or an exception
subclient_process_restore_response(r) ==
    IF r.flag
    THEN IF DOMAIN r.body.v # {}
         THEN IF "jobIds" \in DOMAIN r.body.v
              THEN Return(Job(r.body.v.jobIds[1]))
              ELSE Raise(SDKException("Subclient", "102", NoMessage))
         ELSE Raise(SDKException("Response", "102", NoMessage))
    ELSE Raise(SDKException("Response", "101", update_response(r.text)))

\* VsaLiveSync._configure_live_sync(schedule_name, restore_options, pattern_dict)
configure_live_sync(schedule_name, restore_options, pattern_dict) ==
    /\ vsa.t = "VsaLiveSync"
    /\ \E guid \in Guids, placement \in Placements, r \in RestoreResponses :
         /\ call' = [op |-> "_configure_live_sync",
                     schedule_name |-> schedule_name,
                     restore_options |-> Put(restore_options, "replication_guid", guid),
                     pattern_dict |-> pattern_dict,
                     placement |-> placement]
         /\ request_json' = configure_live_sync_json(
                                schedule_name, restore_options, pattern_dict,
                                guid, placement)
         /\ response' = r
         /\ outcome' = subclient_process_restore_response(r)
    /\ nreq' = 1
    /\ endpoint' = RESTORE
    /\ repeated' = FALSE
    /\ UNCHANGED <<vs, input, vsa, pair, mysql>>

-----------------------------------------------------------------------------
(* OpenStackInstance and OracleCloudInstance of the Virtual Server agent *)

\* longest memberServers sequence of a property response
MaxMembers == 2
\* longest server_name list the model follows
MaxServerNames == 4

\* the entries the server lists under associatedClients.memberServers
MemberEntries ==
    {[client |-> [clientName |-> "proxy1"]],
     [client |-> [clientName |-> "proxy2"]],
     [client |-> [clientId |-> 3]]}

vmwareVendor(domain) ==
    [virtualCenter |-> [domainName |-> domain, userName |-> "admin"]]

\* the instance properties the server answers with
InstanceProperties ==
    {[instance |-> [clientName |-> c],
      virtualServerInstance |->
          [vmwareVendor |-> vmwareVendor(d),
           associatedClients |-> [memberServers |-> m]]] :
        c \in {"vsclient"}, d \in {"host1", "host2"},
        m \in SeqUpTo(MemberEntries, MaxMembers)}
    \cup {[instance |-> [clientName |-> "vsclient"],
           virtualServerInstance |->
              [associatedClients |-> [memberServers |-> m]]] :
            m \in SeqUpTo(MemberEntries, MaxMembers)}

\* answers to the property query of the base class
InstanceResponses ==
    FailedResponses \cup {Success(Json(p)) : p \in InstanceProperties}

\* VirtualServerInstance._get_instance_properties: the base class stores
\* the properties it received, or raises and stores nothing
base_get_instance_properties(o, r) ==
    IF r.flag
    THEN [vs |-> [o EXCEPT !.properties = r.body.v,
                           !.instance = r.body.v.instance,
                           !.virtualserverinstance = r.body.v.virtualServerInstance,
                           !.asscociatedclients =
                               r.body.v.virtualServerInstance.associatedClients],
          result |-> Return(None)]
    ELSE [vs |-> o,
          result |-> Raise(SDKException("Response", "101", update_response(r.text)))]

\* openstackinstance.py lines 52-54 / oraclecloudinstance.py lines 51-54:
\* the object before the base constructor fetches the properties
new_vs_instance(class) ==
    [t |-> class,
     vendor_id |-> IF class = "OpenStackInstance" THEN 12 ELSE 13,
     server_name |-> << >>,
     server_host_name |-> IF class = "OpenStackInstance" THEN List(<< >>) ELSE None,
     username |-> None,
     properties |-> << >>,
     instance |-> << >>,
     virtualserverinstance |-> << >>,
     asscociatedclients |-> << >>]

\* OpenStackInstance._get_instance_properties (lines 57-75): the object
\* afterwards and the result
openstack_get_instance_properties(o, r) ==
    LET base == base_get_instance_properties(o, r)
        b == base.vs
    IN  IF base.result.kind = "raise"
        THEN base
        ELSE IF "virtualServerInstance" \in DOMAIN b.properties
        THEN IF "vmwareVendor" \notin DOMAIN b.properties.virtualServerInstance
             THEN [vs |-> b, result |-> Raise(PyError("KeyError"))]
             ELSE [vs |-> [b EXCEPT
                      !.server_host_name =
                          List(<< b.properties.virtualServerInstance.vmwareVendor
                                     .virtualCenter.domainName >>),
                      !.server_name = Append(@, b.instance.clientName)],
                   result |-> Return(None)]
        ELSE base

\* lines 75-78: the loop over memberServers, appending to server_name
RECURSIVE append_member_servers(_, _)
append_member_servers(server_name, memberServers) ==
    IF Len(memberServers) = 0
    THEN server_name
    ELSE LET client == Head(memberServers).client
         IN  append_member_servers(
                 IF "clientName" \in DOMAIN client
                 THEN Append(server_name, client.clientName)
                 ELSE server_name,
                 Tail(memberServers))

\* OracleCloudInstance._get_instance_properties (lines 57-78)
oraclecloud_get_instance_properties(o, r) ==
    LET base == base_get_instance_properties(o, r)
        b == base.vs
        vendor == IF "vmwareVendor" \in DOMAIN b.virtualserverinstance
                  THEN [b EXCEPT
                          !.server_host_name =
                              List(<< b.virtualserverinstance.vmwareVendor
                                         .virtualCenter.domainName >>),
                          !.username =
                              Str(b.virtualserverinstance.vmwareVendor
                                     .virtualCenter.userName)]
                  ELSE b
    IN  IF base.result.kind = "raise"
        THEN base
        ELSE [vs |-> [vendor EXCEPT !.server_name =
                         append_member_servers(@, b.asscociatedclients.memberServers)],
              result |-> Return(None)]

\* _get_instance_properties of the object's class
vs_get_instance_properties(o, r) ==
    IF o.t = "OpenStackInstance"
    THEN openstack_get_instance_properties(o, r)
    ELSE oraclecloud_get_instance_properties(o, r)

GET_INSTANCE == [service |-> "INSTANCE"]

\* one refresh of the instance: a call of _get_instance_properties
vs_refresh(class, r) ==
    /\ vs.t = class
    /\ Len(vs.server_name) + MaxMembers <= MaxServerNames
    /\ call' = [op |-> "_get_instance_properties", class |-> class]
    /\ LET got == vs_get_instance_properties(vs, r)
       IN  /\ vs' = got.vs
           /\ outcome' = got.result
    /\ response' = r
    /\ request_json' = None
    /\ nreq' = 1
    /\ endpoint' = GET_INSTANCE
    /\ repeated' = (call.op = "_get_instance_properties" /\ response = r)
    /\ UNCHANGED <<input, vsa, pair, mysql>>

OpenStackInstance_get_instance_properties(r) == vs_refresh("OpenStackInstance", r)
OracleCloudInstance_get_instance_properties(r) == vs_refresh("OracleCloudInstance", r)

-----------------------------------------------------------------------------
(* Specifications *)

NoCall == [op |-> "none"]

InitObjects ==
    /\ call = NoCall
    /\ response = NoResponse
    /\ request_json = None
    /\ nreq = 0
    /\ endpoint = NoEndpoint
    /\ outcome = NotCalled
    /\ repeated = FALSE
    /\ vs = None
    /\ mysql = None
    /\ vsa = None
    /\ pair = None

\* the Install object: the caller's arguments are drawn once, the transport's
\* answer at every call
InitInstall ==
    /\ input \in PushArgs \cup InstallArgs
    /\ InitObjects

NextInstall ==
    \/ \E r \in TaskResponses : push_servicepack_and_hotfix(input, r)
    \/ \E r \in TaskResponses : install_software(input, r)

SpecInstall == InitInstall /\ [][NextInstall]_vars

NoInput == [op |-> "none"]

\* the VsaLiveSync objects that construction can yield
ConstructedVsa ==
    {VsaLiveSync_init(r) : r \in AllPairsResponses} \ {None}

\* the LiveSyncPair objects that construction with an id can yield
ConstructedPairs ==
    {construct_live_sync_pair(<<"F", "o">>, Str("7"), r).pair :
        r \in {x \in PairResponses :
                 construct_live_sync_pair(<<"F", "o">>, Str("7"), x).result.kind = "return"}}

\* the live sync collection of one subclient, from its construction on
InitVsa ==
    /\ input = NoInput
    /\ call = NoCall
    /\ response = NoResponse
    /\ request_json = None
    /\ nreq = 0
    /\ endpoint = NoEndpoint
    /\ outcome = NotCalled
    /\ repeated = FALSE
    /\ vs = None
    /\ mysql = None
    /\ vsa \in ConstructedVsa
    /\ pair = None

NextVsa ==
    \/ \E r \in AllPairsResponses : VsaLiveSync_refresh(r)
    \/ \E name \in PairNames : has_live_sync_pair(name)
    \/ \E name \in PairNames : get(name)

SpecVsa == InitVsa /\ [][NextVsa]_vars


\* the live sync collection of one subclient, refreshed and used to
\* configure live sync schedules
NextConfigure ==
    \/ \E r \in AllPairsResponses : VsaLiveSync_refresh(r)
    \/ \E schedule_name \in ScheduleNames, restore_options \in LiveSyncOptions,
          pattern_dict \in PatternDicts :
         configure_live_sync(schedule_name, restore_options, pattern_dict)

SpecConfigure == InitVsa /\ [][NextConfigure]_vars

\* one live sync pair, constructed by its caller and refreshed; the parent
\* collection holds the snapshot it was constructed with
NextPair ==
    \/ \E name \in PairNames, id \in PairIds : LiveSyncPair_init(name, id)
    \/ \E r \in PairResponses : LiveSyncPair_refresh(r)

\* the parent collection as constructed from an empty answer or one entry
ParentResponses ==
    {Success(Json(EmptyBody)),
     Success(Json([siteInfo |->
        << [subTask |-> [subtaskName |-> <<"F", "o">>], replicationId |-> 7] >>]))}

InitPair ==
    /\ input = NoInput
    /\ call = NoCall
    /\ response = NoResponse
    /\ request_json = None
    /\ nreq = 0
    /\ endpoint = NoEndpoint
    /\ outcome = NotCalled
    /\ repeated = FALSE
    /\ vs = None
    /\ mysql = None
    /\ vsa \in {VsaLiveSync_init(r) : r \in ParentResponses}
    /\ pair = None

SpecPair == InitPair /\ [][NextPair]_vars


\* one constructed live sync pair, refreshed and read
InitPairRead ==
    /\ input = NoInput
    /\ call = NoCall
    /\ response = NoResponse
    /\ request_json = None
    /\ nreq = 0
    /\ endpoint = NoEndpoint
    /\ outcome = NotCalled
    /\ repeated = FALSE
    /\ vs = None
    /\ mysql = None
    /\ vsa = None
    /\ pair \in ConstructedPairs

NextPairRead ==
    \/ \E r \in PairResponses : LiveSyncPair_refresh(r)
    \/ live_sync_id
    \/ live_sync_name
    \/ replication_guid
    \/ source_vm
    \/ destination_vm
    \/ status

SpecPairRead == InitPairRead /\ [][NextPairRead]_vars

\* every operation that calls the transport: the Install operations on
\* arguments that pass their validation, and refresh() on a constructed
\* VsaLiveSync and a constructed LiveSyncPair
SampleInputs ==
    {[op |-> "push_servicepack_and_hotfix",
      client_computers |-> List(<< <<"H", "A">> >>),
      client_computer_groups |-> None,
      all_client_computers |-> FALSE,
      all_client_computer_groups |-> TRUE,
      reboot_client |-> FALSE,
      run_db_maintenance |-> TRUE],
     [op |-> "install_software",
      client_computers |-> List(<< <<"w", "1">> >>),
      windows_features |-> List(<< 702 >>),
      unix_features |-> None,
      username |-> Str("admin"),
      password |-> Str("cGFzcw==")]}

Init ==
    /\ input \in SampleInputs
    /\ call = NoCall
    /\ response = NoResponse
    /\ request_json = None
    /\ nreq = 0
    /\ endpoint = NoEndpoint
    /\ outcome = NotCalled
    /\ repeated = FALSE
    /\ vs = None
    /\ mysql = None
    /\ vsa \in ConstructedVsa
    /\ pair \in ConstructedPairs

Next ==
    \/ \E r \in TaskResponses : push_servicepack_and_hotfix(input, r)
    \/ \E r \in TaskResponses : install_software(input, r)
    \/ \E r \in AllPairsResponses : VsaLiveSync_refresh(r)
    \/ \E r \in PairResponses : LiveSyncPair_refresh(r)

Spec == Init /\ [][Next]_vars

-----------------------------------------------------------------------------
(* Claims about Install.push_servicepack_and_hotfix and install_software *)

IsPush == call.op = "push_servicepack_and_hotfix"
IsInstall == call.op = "install_software"

RaisedSDK(module, id) ==
    /\ outcome.kind = "raise"
    /\ outcome.exc.t = "SDKException"
    /\ outcome.exc.module = module
    /\ outcome.exc.id = id

NothingSent ==
    /\ nreq = 0
    /\ ~response.sent
    /\ endpoint = NoEndpoint
    /\ request_json.t = "None"

\* the clientAndClientGroups sequence of the request that was submitted
Submitted == request_json.taskInfo.subTasks[1].options.adminOpts.updateOption.clientAndClientGroups

NoSelector ==
    /\ IsPush
    /\ ~bool(call.client_computers)
    /\ ~bool(call.client_computer_groups)
    /\ ~call.all_client_computers
    /\ ~call.all_client_computer_groups

\* C1: push_servicepack_and_hotfix called with no target selector (both lists
\* None or empty, both "all" flags false) fails with SDKException
\* ('Install', '101') and make_request is not invoked during the call.
C1_NoSelectorFails == NoSelector => RaisedSDK("Install", "101") /\ NothingSent

C1_Witness ==
    /\ NoSelector
    /\ call.client_computers = List(<< >>)
    /\ call.client_computer_groups = None
    /\ RaisedSDK("Install", "101")

HasUnknown(names, known) ==
    /\ names.t = "list"
    /\ \E i \in 1..Len(names.v) : lower(names.v[i]) \notin known

\* C2: push_servicepack_and_hotfix with a name in client_computers that,
\* lower-cased, is not a known client fails with ('Install', '102'); with all
\* computers known and a name in client_computer_groups that is not a known
\* group it fails with ('Install', '103'); in both cases no request body is
\* built and make_request is not invoked, whatever the two "all" flags are.
C2_UnknownNameFails ==
    (IsPush /\ ~NoSelector) =>
        /\ HasUnknown(call.client_computers, all_clients)
              => RaisedSDK("Install", "102") /\ NothingSent
        /\ (~HasUnknown(call.client_computers, all_clients)
             /\ HasUnknown(call.client_computer_groups, all_clientgroups))
              => RaisedSDK("Install", "103") /\ NothingSent

C2_Witness ==
    /\ IsPush
    /\ call.all_client_computers
    /\ call.all_client_computer_groups
    /\ call.client_computers = List(<< <<"H", "A">> >>)
    /\ call.client_computer_groups = List(<< <<"G", "a">>, <<"g", "x">> >>)
    /\ RaisedSDK("Install", "103")
    /\ NothingSent

OnlyComputers ==
    /\ IsPush
    /\ nreq = 1
    /\ call.client_computers.t = "list"
    /\ call.client_computer_groups.t = "None"
    /\ ~call.all_client_computers
    /\ ~call.all_client_computer_groups

\* C3: push_servicepack_and_hotfix called with only client_computers, a list
\* of known names in any letter case, submits a clientAndClientGroups
\* sequence holding exactly one {"clientName": <lower-cased name>} per input
\* name, in input order.
C3_ExplicitComputersLowered ==
    OnlyComputers =>
        /\ Len(Submitted) = Len(call.client_computers.v)
        /\ \A i \in 1..Len(Submitted) :
              /\ DOMAIN Submitted[i] = {"clientName"}
              /\ Len(Submitted[i].clientName) = Len(call.client_computers.v[i])
              /\ \A k \in 1..Len(Submitted[i].clientName) :
                    /\ Submitted[i].clientName[k] \notin Upper
                    /\ Submitted[i].clientName[k] = LowerChar(call.client_computers.v[i][k])

C3_Witness ==
    /\ OnlyComputers
    /\ call.client_computers = List(<< <<"H", "A">>, <<"h", "b">> >>)
    /\ Submitted = << [clientName |-> <<"h", "a">>], [clientName |-> <<"h", "b">>] >>

IsClientName(e) == DOMAIN e = {"clientName"}
IsGroupName(e) == DOMAIN e = {"clientGroupName"}
IsSentinel(e, n) == DOMAIN e = {"_type_"} /\ e._type_ = n

\* C4 as stated: with all_client_computers true and a non-empty list of known
\* client_computers the sequence holds every explicit clientName entry as
\* well as the sentinel {"_type_": 2}; likewise for the groups and
\* {"_type_": 27}.
C4_Original ==
    (IsPush /\ nreq = 1) =>
        /\ (call.all_client_computers /\ bool(call.client_computers)) =>
              /\ \E i \in 1..Len(Submitted) : IsSentinel(Submitted[i], 2)
              /\ \A k \in 1..Len(call.client_computers.v) :
                    \E i \in 1..Len(Submitted) :
                        /\ IsClientName(Submitted[i])
                        /\ Submitted[i].clientName = lower(call.client_computers.v[k])
        /\ (call.all_client_computer_groups /\ bool(call.client_computer_groups)) =>
              /\ \E i \in 1..Len(Submitted) : IsSentinel(Submitted[i], 27)
              /\ \A k \in 1..Len(call.client_computer_groups.v) :
                    \E i \in 1..Len(Submitted) :
                        /\ IsGroupName(Submitted[i])
                        /\ Submitted[i].clientGroupName = lower(call.client_computer_groups.v[k])

\* C4 (amended): an "all" sentinel replaces the explicit entries of its own
\* kind and leaves those of the other kind: with all_client_computers true
\* the sequence holds {"_type_": 2} and no clientName entry, with
\* all_client_computer_groups true it holds {"_type_": 27} and no
\* clientGroupName entry, and the explicit list whose own flag is false keeps
\* one entry per name.
C4_SentinelReplacesOwnList ==
    (IsPush /\ nreq = 1) =>
        /\ call.all_client_computers =>
              /\ \E i \in 1..Len(Submitted) : IsSentinel(Submitted[i], 2)
              /\ \A i \in 1..Len(Submitted) : ~IsClientName(Submitted[i])
        /\ call.all_client_computer_groups =>
              /\ \E i \in 1..Len(Submitted) : IsSentinel(Submitted[i], 27)
              /\ \A i \in 1..Len(Submitted) : ~IsGroupName(Submitted[i])
        /\ (~call.all_client_computers /\ call.client_computers.t = "list") =>
              \A k \in 1..Len(call.client_computers.v) :
                  \E i \in 1..Len(Submitted) :
                      /\ IsClientName(Submitted[i])
                      /\ Submitted[i].clientName = lower(call.client_computers.v[k])
        /\ (~call.all_client_computer_groups /\ call.client_computer_groups.t = "list") =>
              \A k \in 1..Len(call.client_computer_groups.v) :
                  \E i \in 1..Len(Submitted) :
                      /\ IsGroupName(Submitted[i])
                      /\ Submitted[i].clientGroupName = lower(call.client_computer_groups.v[k])

C4_Witness ==
    /\ IsPush
    /\ nreq = 1
    /\ call.all_client_computers
    /\ ~call.all_client_computer_groups
    /\ call.client_computers = List(<< <<"h", "a">>, <<"h", "b">> >>)
    /\ call.client_computer_groups = List(<< <<"G", "a">> >>)
    /\ Submitted = << [_type_ |-> 2], [clientGroupName |-> <<"g", "a">>] >>

IsExplicit(e) == IsClientName(e) \/ IsGroupName(e)
IsAll(e) == IsSentinel(e, 2) \/ IsSentinel(e, 27)

\* C5 as stated: in every submitted sequence every explicit-list entry
\* precedes every "all" sentinel.
C5_Original ==
    (IsPush /\ nreq = 1) =>
        \A i, j \in 1..Len(Submitted) :
            (IsExplicit(Submitted[i]) /\ IsAll(Submitted[j])) => i < j

\* C5 (amended): the sequence is the computers part followed by the groups
\* part: every clientName entry or {"_type_": 2} sentinel precedes every
\* clientGroupName entry or {"_type_": 27} sentinel (so explicit group
\* entries follow the all-computers sentinel).
C5_ComputersBeforeGroups ==
    (IsPush /\ nreq = 1) =>
        \A i, j \in 1..Len(Submitted) :
            ((IsClientName(Submitted[i]) \/ IsSentinel(Submitted[i], 2))
             /\ (IsGroupName(Submitted[j]) \/ IsSentinel(Submitted[j], 27))) => i < j

C5_Witness ==
    /\ IsPush
    /\ nreq = 1
    /\ call.all_client_computers
    /\ call.client_computer_groups.t = "list"
    /\ Len(Submitted) = 3
    /\ IsSentinel(Submitted[1], 2)
    /\ IsGroupName(Submitted[2])
    /\ IsGroupName(Submitted[3])

HasJobIds ==
    /\ (IsPush \/ IsInstall)
    /\ nreq = 1
    /\ response.flag
    /\ response.body.ok
    /\ "jobIds" \in DOMAIN response.body.v
    /\ Len(response.body.v.jobIds) > 0

\* C6: push_servicepack_and_hotfix and install_software, on a success flag
\* and a body with a non-empty jobIds sequence, return a Job Handle built
\* from the first element of jobIds, whatever follows it.
C6_FirstJobId ==
    HasJobIds =>
        /\ outcome.kind = "return"
        /\ outcome.value.t = "Job"
        /\ outcome.value.job_id = response.body.v.jobIds[1]

C6_Witness ==
    /\ HasJobIds
    /\ IsPush
    /\ response.body.v.jobIds = <<42, 43>>
    /\ outcome.kind = "return"
    /\ outcome.value.job_id = 42

-----------------------------------------------------------------------------
(* Claims about the handling of make_request's answer *)

IsVsaRefresh == call.op = "VsaLiveSync.refresh"
IsPairRefresh == call.op = "LiveSyncPair.refresh"

\* the last call was one of the four operations and it reached the transport
CalledTransport ==
    /\ (IsPush \/ IsInstall \/ IsVsaRefresh \/ IsPairRefresh)
    /\ nreq = 1
    /\ response.sent

\* C7: whenever make_request returns a failure flag to one of the four
\* operations, the operation fails with SDKException ('Response', '101')
\* and the exception carries the raw response text.
C7_FailureCarriesText ==
    (CalledTransport /\ ~response.flag) =>
        /\ RaisedSDK("Response", "101")
        /\ outcome.exc.message = update_response(response.text)

ParsedEmpty ==
    /\ CalledTransport
    /\ response.flag
    /\ response.body.ok
    /\ DOMAIN response.body.v = {}

\* C8: whenever the flag is success and the parsed body is empty, each of
\* the four operations fails with SDKException ('Response', '102') and does
\* not return normally.
C8_EmptyBodyFails == ParsedEmpty => RaisedSDK("Response", "102")

ExpectedKey == IF IsPush \/ IsInstall THEN "jobIds" ELSE "siteInfo"

LacksExpectedKey ==
    /\ CalledTransport
    /\ response.flag
    /\ response.body.ok
    /\ DOMAIN response.body.v # {}
    /\ ExpectedKey \notin DOMAIN response.body.v

\* C9: whenever the flag is success and the body is a non-empty mapping
\* without the expected key (jobIds, respectively siteInfo), each of the
\* four operations fails with an SDKException that is neither the
\* EmptyResponse error ('Response', '102') nor the TransportError
\* ('Response', '101').
C9_MissingKeyIsItsOwnError ==
    LacksExpectedKey =>
        /\ outcome.kind = "raise"
        /\ outcome.exc.t = "SDKException"
        /\ ~RaisedSDK("Response", "102")
        /\ ~RaisedSDK("Response", "101")

-----------------------------------------------------------------------------
(* Claims about the VsaLiveSync collection *)

\* C10: has_live_sync_pair(name) returns True exactly when the lower-cased
\* name is a key of live_sync_pairs and False otherwise, the empty snapshot
\* included.
C10_HasIsMembership ==
    call.op = "has_live_sync_pair" =>
        /\ outcome.kind = "return"
        /\ outcome.value.t = "bool"
        /\ outcome.value.v = (lower(call.live_sync_name) \in DOMAIN vsa.live_sync_pairs.v)

IsGet == call.op = "get"

\* the pair's request, when get(name) made one, was answered with a complete
\* siteInfo entry
GetAnswered ==
    nreq = 1 =>
        /\ response.flag
        /\ response.body.ok
        /\ "siteInfo" \in DOMAIN response.body.v
        /\ Len(response.body.v.siteInfo) > 0
        /\ DOMAIN response.body.v.siteInfo[1] = DOMAIN PairVersion(1)

\* C11: get(name), for a name in any letter case, returns a LiveSyncPair
\* handle carrying the snapshot's id of the pair whenever
\* has_live_sync_pair(name) is true, and fails with SDKException
\* ('LiveSync', '102') whenever it is false; nothing else happens (the
\* server answering the pair's query properly).
C11_GetFollowsHas ==
    (IsGet /\ GetAnswered) =>
        IF truthy(has_live_sync_pair_value(vsa.live_sync_pairs, call.live_sync_name))
        THEN /\ outcome.kind = "return"
             /\ pair.t = "LiveSyncPair"
             /\ pair.live_sync_id =
                   Str(vsa.live_sync_pairs.v[lower(call.live_sync_name)].id)
        ELSE RaisedSDK("LiveSync", "102")

\* the answer makes VsaLiveSync.refresh fail: a failure flag, or a non-empty
\* body without siteInfo
FailingAnswer(r) ==
    \/ ~r.flag
    \/ /\ r.flag
       /\ r.body.ok
       /\ DOMAIN r.body.v # {}
       /\ "siteInfo" \notin DOMAIN r.body.v

\* C12: a VsaLiveSync.refresh() that fails (a transport failure, or a
\* non-empty body without siteInfo) raises to the caller and leaves
\* live_sync_pairs equal to the snapshot held before the call, after any
\* sequence of earlier refreshes.
C12_FailedRefreshKeepsSnapshot ==
    [][(call'.op = "VsaLiveSync.refresh" /\ FailingAnswer(response')) =>
          /\ outcome'.kind = "raise"
          /\ vsa'.live_sync_pairs = vsa.live_sync_pairs]_vars

C12_Witness ==
    /\ IsVsaRefresh
    /\ response.flag
    /\ response.body.ok
    /\ FailingAnswer(response)
    /\ RaisedSDK("Response", "102")
    /\ DOMAIN vsa.live_sync_pairs.v = {<<"f", "o">>, <<"b", "a">>}

-----------------------------------------------------------------------------
(* Claims about a LiveSyncPair *)

\* the derived value is unset or is the bag's value under the key
FromBag(value, key) ==
    \/ value.t = "None"
    \/ /\ pair.properties.t = "dict"
       /\ key \in DOMAIN pair.properties.v
       /\ value = pair.properties.v[key]

\* C13: in every reachable state of a LiveSyncPair, the state left by a
\* refresh() that raised part-way included, the property bag and the four
\* derived values replication_guid, status, source_vm and destination_vm
\* come from one server response: no derived value differs from the bag's.
C13_OneResponse ==
    pair.t = "LiveSyncPair" =>
        /\ FromBag(pair.replication_guid, "replicationGuid")
        /\ FromBag(pair.status, "status")
        /\ FromBag(pair.source_vm, "sourceName")
        /\ FromBag(pair.destination_vm, "destinationName")

\* C14: refresh() called twice in a row on a VsaLiveSync, or on a
\* LiveSyncPair, with the server giving the same answer both times, leaves
\* after the second call exactly the snapshot left by the first
\* (live_sync_pairs; the property bag and its four derived values).
C14_RefreshIdempotent ==
    [][repeated' =>
          /\ call'.op = "VsaLiveSync.refresh" =>
                vsa'.live_sync_pairs = vsa.live_sync_pairs
          /\ call'.op = "LiveSyncPair.refresh" =>
                /\ pair'.properties = pair.properties
                /\ pair'.replication_guid = pair.replication_guid
                /\ pair'.status = pair.status
                /\ pair'.source_vm = pair.source_vm
                /\ pair'.destination_vm = pair.destination_vm]_vars

C14_Witness ==
    /\ IsPairRefresh
    /\ repeated
    /\ outcome.kind = "return"
    /\ pair.properties = Dict(PairVersion(2))
    /\ pair.status = PyInt(2)
    /\ vsa.live_sync_pairs.v # << >>

\* the objects the constructors can yield: __init__ sets the attributes and
\* the base constructor calls _get_instance_properties once
ConstructedInstances ==
    {vs_get_instance_properties(new_vs_instance(c), r).vs :
        c \in {"OpenStackInstance", "OracleCloudInstance"},
        r \in {x \in InstanceResponses :
                 \A k \in {"OpenStackInstance", "OracleCloudInstance"} :
                    vs_get_instance_properties(new_vs_instance(k), x).result.kind
                        = "return"}}

\* a virtual server instance, from its construction on
InitVS ==
    /\ input = NoInput
    /\ call = NoCall
    /\ response = NoResponse
    /\ request_json = None
    /\ nreq = 0
    /\ endpoint = NoEndpoint
    /\ outcome = NotCalled
    /\ repeated = FALSE
    /\ vsa = None
    /\ pair = None
    /\ mysql = None
    /\ vs \in ConstructedInstances

NextVS ==
    \/ \E r \in InstanceResponses : OpenStackInstance_get_instance_properties(r)
    \/ \E r \in InstanceResponses : OracleCloudInstance_get_instance_properties(r)

SpecVS == InitVS /\ [][NextVS]_vars

-----------------------------------------------------------------------------
(* Specifications of the MYSQLInstance object *)

\* the restore operations: the caller's arguments are drawn once, the
\* transport's answer at every call
InitMySQL ==
    /\ input \in RestoreArgs \cup OptionArgs
    /\ call = NoCall
    /\ response = NoResponse
    /\ request_json = None
    /\ nreq = 0
    /\ endpoint = NoEndpoint
    /\ outcome = NotCalled
    /\ repeated = FALSE
    /\ vs = None
    /\ vsa = None
    /\ pair = None
    /\ mysql = MYSQLInstance(FullProperties)

NextMySQL ==
    \/ \E r \in RestoreResponses : restore_in_place(input, r)
    \/ restore_mysql_option_json(input)

SpecMySQL == InitMySQL /\ [][NextMySQL]_vars

\* the object after an earlier restore_in_place that passed validation
RestoredMySQL ==
    restore_json(MYSQLInstance(FullProperties),
                 restore_kwargs(CHOOSE a \in RestoreArgs :
                                    /\ restore_validate(a).t = "None"
                                    /\ a.staging.t = "str"
                                    /\ a.dest_client_name.t = "str"
                                    /\ a.from_time.t = "None"
                                    /\ a.to_time.t = "dict"
                                    /\ a.clone_env.v
                                    /\ a.clone_options.t = "dict"
                                    /\ ~a.table_level_restore.v
                                    /\ a.data_restore.v
                                    /\ a.overwrite.v)).mysql

\* the six sub-builders called one by one, on a new object and on one that
\* a restore has already filled
InitMySQLBuilders ==
    /\ input = NoInput
    /\ call = NoCall
    /\ response = NoResponse
    /\ request_json = None
    /\ nreq = 0
    /\ endpoint = NoEndpoint
    /\ outcome = NotCalled
    /\ repeated = FALSE
    /\ vs = None
    /\ vsa = None
    /\ pair = None
    /\ mysql \in {MYSQLInstance(FullProperties), RestoredMySQL}

NextMySQLBuilders ==
    \/ \E v \in BuilderValues : restore_browse_option_json(v)
    \/ \E v \in BuilderValues : restore_common_options_json(v)
    \/ \E v \in BuilderValues : restore_destination_json(v)
    \/ \E v \in BuilderValues : restore_fileoption_json(v)
    \/ \E v \in BuilderValues : restore_admin_option_json(v)
    \/ \E v \in BuilderValues :
          restore_mysql_option_json([op |-> "_restore_mysql_option_json", value |-> v])

SpecMySQLBuilders == InitMySQLBuilders /\ [][NextMySQLBuilders]_vars

\* the property accessors, on every snapshot
InitMySQLProperties ==
    /\ input = NoInput
    /\ call = NoCall
    /\ response = NoResponse
    /\ request_json = None
    /\ nreq = 0
    /\ endpoint = NoEndpoint
    /\ outcome = NotCalled
    /\ repeated = FALSE
    /\ vs = None
    /\ vsa = None
    /\ pair = None
    /\ mysql \in {MYSQLInstance(p) : p \in PropertySnapshots}

NextMySQLProperties ==
    \/ port
    \/ mysql_username
    \/ nt_username
    \/ config_file
    \/ binary_directory
    \/ version
    \/ log_data_directory
    \/ log_backup_sp_details
    \/ command_line_sp_details
    \/ autodiscovery_enabled
    \/ proxy_options

SpecMySQLProperties == InitMySQLProperties /\ [][NextMySQLProperties]_vars

-----------------------------------------------------------------------------
(* Claims about MYSQLInstance *)

IsOptionBuilder == call.op = "_restore_mysql_option_json"

TableLevel ==
    /\ IsOptionBuilder
    /\ call.value.t = "dict"
    /\ "table_level_restore" \in DOMAIN call.value.v
    /\ call.value.v.table_level_restore = Bool(TRUE)

\* C15: for every mapping handed to _restore_mysql_option_json in which
\* table_level_restore is true, the mySqlRstOption subtree that results has
\* dropTable true and instanceRestore false, whatever data_restore,
\* log_restore, clone_env, clone_options, staging, from_time and to_time are
\* (present or not).
C15_TableLevelFlags ==
    TableLevel =>
        /\ outcome.kind = "return"
        /\ mysql.mysql_restore_json.t = "dict"
        /\ "dropTable" \in DOMAIN mysql.mysql_restore_json.v
        /\ mysql.mysql_restore_json.v.dropTable = Bool(TRUE)
        /\ mysql.mysql_restore_json.v.instanceRestore = Bool(FALSE)

C15_Witness ==
    /\ TableLevel
    /\ "clone_env" \in DOMAIN call.value.v
    /\ call.value.v.clone_env = Bool(TRUE)
    /\ "from_time" \notin DOMAIN call.value.v
    /\ mysql.mysql_restore_json.v.dropTable = Bool(TRUE)
    /\ mysql.mysql_restore_json.v.instanceRestore = Bool(FALSE)
    /\ mysql.mysql_restore_json.v.tableLevelRestore = Bool(TRUE)
    /\ "cloneOptions" \in DOMAIN mysql.mysql_restore_json.v

\* the key at the path is there in the dict d
RECURSIVE HasPath(_, _)
HasPath(d, path) ==
    /\ d.t = "dict"
    /\ path[1] \in DOMAIN d.v
    /\ Len(path) = 1 \/ HasPath(d.v[path[1]], Tail(path))

\* the key at the path is absent from the dict d: the key itself, or a key
\* above it, is missing from the mapping that would hold it
RECURSIVE KeyAbsent(_, _)
KeyAbsent(d, path) ==
    /\ d.t = "dict"
    /\ \/ path[1] \notin DOMAIN d.v
       \/ /\ path[1] \in DOMAIN d.v
          /\ Len(path) > 1
          /\ KeyAbsent(d.v[path[1]], Tail(path))

\* the key each scalar accessor reads
ScalarKey ==
    [port |-> <<"mySqlInstance", "port">>,
     mysql_username |-> <<"mySqlInstance", "SAUser", "userName">>,
     nt_username |-> <<"mySqlInstance", "NTUser", "userName">>,
     config_file |-> <<"mySqlInstance", "ConfigFile">>,
     binary_directory |-> <<"mySqlInstance", "BinaryDirectory">>,
     version |-> <<"mySqlInstance", "version">>,
     log_data_directory |-> <<"mySqlInstance", "LogDataDirectory">>,
     autodiscovery_enabled |-> <<"mySqlInstance", "EnableAutoDiscovery">>]

\* the fixed key set of each composite accessor, and the key read for each
CompositeKeys ==
    [log_backup_sp_details |->
        [storagePolicyName |-> <<"mySqlInstance", "logStoragePolicy", "storagePolicyName">>,
         storagePolicyId |-> <<"mySqlInstance", "logStoragePolicy", "storagePolicyId">>],
     command_line_sp_details |->
        [storagePolicyName |-> <<"mySqlInstance", "mysqlStorageDevice",
                                 "commandLineStoragePolicy", "storagePolicyName">>,
         storagePolicyId |-> <<"mySqlInstance", "mysqlStorageDevice",
                               "commandLineStoragePolicy", "storagePolicyId">>],
     proxy_options |->
        [isUseSSL |-> <<"mySqlInstance", "proxySettings", "isUseSSL">>,
         isProxyEnabled |-> <<"mySqlInstance", "proxySettings", "isProxyEnabled">>,
         runBackupOnProxy |-> <<"mySqlInstance", "proxySettings", "runBackupOnProxy">>,
         instanceId |-> <<"mySqlInstance", "proxySettings", "proxyInstance",
                          "instanceId">>]]

IsAccessor == call.op \in DOMAIN ScalarKey \cup DOMAIN CompositeKeys

\* mySqlInstance or a key below it is absent from the snapshot
SomeKeyAbsent == \E p \in PropertyPaths : KeyAbsent(mysql.properties, p)

\* C16: on every property snapshot in which mySqlInstance or a key below it
\* is absent, every accessor returns without error: None for an absent
\* scalar, False for autodiscovery_enabled, and for the composite accessors
\* a mapping with the full fixed key set whose absent values are None.
C16_AbsentIsUnset ==
    (IsAccessor /\ SomeKeyAbsent) =>
        /\ outcome.kind = "return"
        /\ call.op \in DOMAIN ScalarKey =>
              (KeyAbsent(mysql.properties, ScalarKey[call.op]) =>
                  outcome.value = IF call.op = "autodiscovery_enabled"
                                  THEN Bool(FALSE) ELSE None)
        /\ call.op \in DOMAIN CompositeKeys =>
              /\ outcome.value.t = "dict"
              /\ DOMAIN outcome.value.v = DOMAIN CompositeKeys[call.op]
              /\ \A k \in DOMAIN CompositeKeys[call.op] :
                    KeyAbsent(mysql.properties, CompositeKeys[call.op][k]) =>
                        outcome.value.v[k] = None

C16_Witness ==
    /\ call.op = "proxy_options"
    /\ ~HasPath(mysql.properties, <<"mySqlInstance", "proxySettings", "proxyInstance">>)
    /\ ~HasPath(mysql.properties, <<"mySqlInstance", "proxySettings", "isUseSSL">>)
    /\ HasPath(mysql.properties, <<"mySqlInstance", "proxySettings">>)
    /\ outcome = Return(Dict([isUseSSL |-> None, isProxyEnabled |-> Bool(TRUE),
                              runBackupOnProxy |-> Bool(FALSE), instanceId |-> None]))

IsRestore == call.op = "restore_in_place"

\* neither _restore_json nor _process_restore_response was reached: no
\* request was built or sent and no leaf of the object was written
RestoreNotReached ==
    /\ request_json = None
    /\ nreq = 0
    /\ ~response.sent
    /\ endpoint = NoEndpoint
    /\ mysql = MYSQLInstance(FullProperties)

\* C17: restore_in_place fails with SDKException ('Instance', '101') when
\* path is not a list or overwrite is not a boolean, and with ('Instance',
\* '104') when path is the empty list (overwrite being a boolean); in both
\* cases _restore_json and _process_restore_response are never reached.
C17_RestoreValidation ==
    IsRestore =>
        /\ (call.path.t # "list" \/ call.overwrite.t # "bool") =>
              RaisedSDK("Instance", "101") /\ RestoreNotReached
        /\ (call.path = List(<< >>) /\ call.overwrite.t = "bool") =>
              RaisedSDK("Instance", "104") /\ RestoreNotReached

C17_Witness ==
    /\ IsRestore
    /\ call.path = List(<< >>)
    /\ call.overwrite = Bool(TRUE)
    /\ call.table_level_restore = Bool(TRUE)
    /\ RaisedSDK("Instance", "104")
    /\ RestoreNotReached

-----------------------------------------------------------------------------
(* Claims about Install.install_software *)

\* the clientInstallOption subtree of the request that was submitted
InstallOption == request_json.taskInfo.subTasks[1].options.adminOpts.clientInstallOption

UnixOnly ==
    /\ IsInstall
    /\ ~bool(call.windows_features)
    /\ bool(call.unix_features)
    /\ bool(call.client_computers)

\* C18: install_software called with windows_features None or empty, a
\* non-empty unix_features list and a non-empty client_computers list
\* submits one request whose installOSType is 1 and whose componentInfo
\* holds exactly one {"osType": "Unix", "ComponentId": f} entry for each f
\* in unix_features, in order.
C18_UnixFeaturesSubmitted ==
    UnixOnly =>
        /\ nreq = 1
        /\ InstallOption.installOSType = 1
        /\ InstallOption.installerOption.clientComposition[1].components.componentInfo
              = [i \in 1..Len(call.unix_features.v) |->
                    [osType |-> "Unix", ComponentId |-> call.unix_features.v[i]]]

NoFeatures ==
    /\ IsInstall
    /\ ~bool(call.windows_features)
    /\ ~bool(call.unix_features)

NoComputers ==
    /\ IsInstall
    /\ ~bool(call.client_computers)

\* C19: install_software fails without invoking make_request, with
\* SDKException ('Install', '105') when neither windows_features nor
\* unix_features is non-empty, and with ('Install', '106') when
\* client_computers is None or empty; when both hold, '105' is raised.
C19_InstallValidation ==
    /\ NoFeatures => RaisedSDK("Install", "105") /\ NothingSent
    /\ (NoComputers /\ ~NoFeatures) => RaisedSDK("Install", "106") /\ NothingSent

-----------------------------------------------------------------------------
(* Claims about the calls of make_request *)

\* the last call was one of the four operations, on input that passes the
\* checks made before the request
ValidCall ==
    \/ IsPush /\ push_validate(call).t = "None"
    \/ IsInstall /\ install_validate(call).t = "None"
    \/ IsVsaRefresh
    \/ IsPairRefresh

\* C20: each of push_servicepack_and_hotfix, install_software,
\* VsaLiveSync.refresh and LiveSyncPair.refresh, on input that passes its
\* validation, invokes make_request exactly once per call, whether the
\* transport succeeds or fails; a failed call is not retried and raises to
\* the caller.
C20_OneRequestPerCall ==
    ValidCall =>
        /\ nreq = 1
        /\ response.sent
        /\ ~response.flag => RaisedSDK("Response", "101")

C20_Witness ==
    /\ IsPairRefresh
    /\ ~response.flag
    /\ response.text = "timeout"
    /\ nreq = 1
    /\ RaisedSDK("Response", "101")

SubBuilders ==
    {"_restore_browse_option_json", "_restore_common_options_json",
     "_restore_destination_json", "_restore_fileoption_json",
     "_restore_admin_option_json", "_restore_mysql_option_json"}

\* C21: each restore sub-builder, given a value that is not a mapping, fails
\* with SDKException ('Instance', '101') and leaves the leaf it owns, and
\* every other leaf, unchanged.
C21_SubBuilderRejects ==
    [][(call'.op \in SubBuilders /\ call'.value.t # "dict") =>
          /\ outcome'.kind = "raise"
          /\ outcome'.exc = SDKException("Instance", "101", NoMessage)
          /\ mysql' = mysql]_vars

C21_Witness ==
    /\ call.op = "_restore_common_options_json"
    /\ call.value.t = "list"
    /\ RaisedSDK("Instance", "101")
    /\ mysql.commonoption_restore_json.t = "None"
    /\ mysql.destination_restore_json.t = "dict"
    /\ mysql.destination_restore_json.v.destClient.v.clientName = Str("client3")

-----------------------------------------------------------------------------
(* Claims about OpenStackInstance and OracleCloudInstance *)

\* C22: server_name and server_host_name depend only on the most recent
\* property response: a _get_instance_properties call that gets the answer
\* the call before it got (an unchanged server) leaves server_name with the
\* same value and the same number of entries, and server_host_name as it
\* was.
C22_ServerNameStable ==
    [][(call'.op = "_get_instance_properties" /\ repeated'
        /\ outcome'.kind = "return") =>
          /\ vs'.server_name = vs.server_name
          /\ vs'.server_host_name = vs.server_host_name]_vars


-----------------------------------------------------------------------------
(* Claims about the LiveSyncPair accessors and its construction *)

PairAccessors ==
    {"live_sync_id", "live_sync_name", "replication_guid", "source_vm",
     "destination_vm", "status"}

\* the accessors of the values a response supplies
DerivedAccessors == {"replication_guid", "source_vm", "destination_vm", "status"}

\* C23: on a LiveSyncPair that never received properties (the object is as
\* the constructor left it: no property bag, the four derived values None),
\* each of the six read-only accessors returns and none raises, and the
\* accessors of the derived values return the "unset" value None.
C23_UnsetPairReadsUnset ==
    (call.op \in PairAccessors /\ pair.properties.t = "None") =>
        /\ outcome.kind = "return"
        /\ call.op \in DerivedAccessors => outcome.value = None


-----------------------------------------------------------------------------
(* Claims about the time range of the MySQL restore request *)

\* the mySqlRstOption subtree of the request restore_in_place built
MySqlRstOption ==
    request_json.taskInfo.subTasks[1].options.restoreOptions.mySqlRstOption.v

\* what _restore_json is to place for a time the caller passed
Normalized(time) == IF time = None THEN Dict(<< >>) ELSE time

\* C24: in the request that _restore_json returns, mySqlRstOption.fromTime is
\* the empty mapping when from_time was None and the caller's from_time
\* otherwise, and mySqlRstOption.refTime is the same for to_time; neither is
\* ever None.
C24_TimesNormalized ==
    (IsRestore /\ request_json # None) =>
        /\ MySqlRstOption.fromTime = Normalized(call.from_time)
        /\ MySqlRstOption.refTime = Normalized(call.to_time)
        /\ MySqlRstOption.fromTime # None
        /\ MySqlRstOption.refTime # None

C24_Witness ==
    /\ IsRestore
    /\ request_json # None
    /\ call.from_time = TimeValue(100)
    /\ call.to_time = None
    /\ MySqlRstOption.fromTime = TimeValue(100)
    /\ MySqlRstOption.refTime = Dict(<< >>)
    /\ mysql.mysql_restore_json.v.refTime = Dict(<< >>)


-----------------------------------------------------------------------------
(* Claims about VsaLiveSync._configure_live_sync *)

IsConfigure == call.op = "_configure_live_sync"

\* the first subtask of the request that was submitted
SubmittedSubTask == request_json.taskInfo.subTasks[1]

\* C25: the request _configure_live_sync submits carries the schedule
\* pattern, and its subTasks[0].subTask is exactly {subTaskType: "RESTORE",
\* operationType: "SITE_REPLICATION", subTaskName: schedule_name}, whatever
\* the schedule pattern collaborator left in that position.
C25_DescriptorWrittenLast ==
    (IsConfigure /\ nreq = 1) =>
        /\ "pattern" \in DOMAIN SubmittedSubTask
        /\ SubmittedSubTask.subTask =
              [subTaskType |-> "RESTORE",
               operationType |-> "SITE_REPLICATION",
               subTaskName |-> call.schedule_name]

C25_Witness ==
    /\ IsConfigure
    /\ nreq = 1
    /\ call.placement = "replaced"
    /\ call.schedule_name = "Weekly"
    /\ call.pattern_dict = None
    /\ SubmittedSubTask.pattern = [freq_type |-> "after_job_completes"]
    /\ SubmittedSubTask.subTask.subTaskName = "Weekly"
    /\ SubmittedSubTask.subTask.operationType = "SITE_REPLICATION"
    /\ outcome.kind = "return"


IsPairInit == call.op = "LiveSyncPair.__init__"

\* C26: the constructor stores the lower-cased name, and every later
\* refresh(), whether it returns or raises, leaves live_sync_id and
\* live_sync_name as they were and queries the endpoint built from that id.
C26_IdentityIsFixed ==
    [][/\ (call'.op = "LiveSyncPair.__init__" /\ outcome'.kind = "return") =>
             pair'.live_sync_name = lower(call'.live_sync_name)
       /\ call'.op = "LiveSyncPair.refresh" =>
             /\ pair'.live_sync_id = pair.live_sync_id
             /\ pair'.live_sync_name = pair.live_sync_name
             /\ pair'.LIVE_SYNC_PAIR = pair.LIVE_SYNC_PAIR
             /\ endpoint' = GET_LIVE_SYNC_PAIR(subclient_id, pair.live_sync_id)]_vars

C26_Witness ==
    /\ IsPairRefresh
    /\ repeated
    /\ outcome.kind = "return"
    /\ pair.properties = Dict(PairVersion(2))
    /\ pair.live_sync_id = Str("7")
    /\ pair.live_sync_name = <<"f", "o">>
    /\ endpoint = GET_LIVE_SYNC_PAIR(subclient_id, Str("7"))


\* the endpoint of the pair that the parent's snapshot lists under name
ParentEndpoint(name) ==
    GET_LIVE_SYNC_PAIR(subclient_id, Str(vsa.live_sync_pairs.v[name].id))

\* C27: LiveSyncPair(subclient, name, id) with an id does not consult the
\* parent collection: it queries the endpoint of that id once and never
\* fails with NotFound.  Without an id, it takes the id the parent's
\* snapshot holds for the lower-cased name, and every request it makes goes
\* to the endpoint of that id; when the snapshot has no such name it raises
\* ('LiveSync', '102') and makes no request.
C27_IdResolution ==
    [][call'.op = "LiveSyncPair.__init__" =>
         LET name == lower(call'.live_sync_name)
             id == call'.live_sync_id
         IN  IF id # None
             THEN /\ nreq' = 1
                  /\ endpoint' = GET_LIVE_SYNC_PAIR(subclient_id, id)
                  /\ ~(outcome'.kind = "raise" /\ outcome'.exc.module = "LiveSync")
                  /\ outcome'.kind = "return" => pair'.live_sync_id = id
             ELSE IF name \in DOMAIN vsa.live_sync_pairs.v
             THEN /\ nreq' >= 1
                  /\ endpoint' = ParentEndpoint(name)
                  /\ outcome'.kind = "return" =>
                        /\ pair'.live_sync_id = Str(vsa.live_sync_pairs.v[name].id)
                        /\ pair'.LIVE_SYNC_PAIR = ParentEndpoint(name)
             ELSE /\ outcome'.kind = "raise"
                  /\ outcome'.exc.t = "SDKException"
                  /\ outcome'.exc.module = "LiveSync"
                  /\ outcome'.exc.id = "102"
                  /\ nreq' = 0
                  /\ endpoint' = NoEndpoint
                  /\ response' = NoResponse
                  /\ pair' = pair]_vars

\* an id-less construction that found its id in the parent's snapshot under
\* the lower-cased name
C27_Witness ==
    /\ IsPairInit
    /\ call.live_sync_id = None
    /\ call.live_sync_name = <<"F", "o">>
    /\ nreq = 2
    /\ outcome.kind = "return"
    /\ pair.live_sync_id = Str("7")
    /\ pair.live_sync_name = <<"f", "o">>
    /\ endpoint = ParentEndpoint(<<"f", "o">>)


-----------------------------------------------------------------------------
(* Claims about the outcomes of the Install operations *)

\* the outcomes the response handling declares: a Job, or one of
\* TransportError ('Response', '101'), EmptyResponse ('Response', '102') and
\* UnexpectedSchema ('Install', '107')
DeclaredOutcome ==
    \/ outcome.kind = "return" /\ outcome.value.t = "Job"
    \/ RaisedSDK("Response", "101")
    \/ RaisedSDK("Response", "102")
    \/ RaisedSDK("Install", "107")

\* C28: whatever make_request answers to push_servicepack_and_hotfix or
\* install_software, the call ends in a Job or in one of the three declared
\* errors; this includes the success response whose jobIds is an empty
\* sequence.
C28_DeclaredOutcomesOnly ==
    ((IsPush \/ IsInstall) /\ nreq = 1) => DeclaredOutcome


-----------------------------------------------------------------------------
(* Claims about the snapshot of VsaLiveSync *)

\* the entries of the answer the last refresh() stored
StoredEntries == response.body.v.siteInfo

\* entry i is the last one of the answer listed under its lower-cased name
LastOfItsName(i) ==
    \A j \in (i + 1)..Len(StoredEntries) :
        lower(StoredEntries[j].subTask.subtaskName)
            # lower(StoredEntries[i].subTask.subtaskName)

\* C29: live_sync_pairs of a constructed VsaLiveSync is always a mapping,
\* each key a lower-cased name and each value of the form {"id": <string>};
\* after a refresh() that stored an answer, the keys are the lower-cased
\* names of its entries and each key holds the id of the last entry listed
\* under that name.
C29_SnapshotShape ==
    /\ vsa.live_sync_pairs.t = "dict"
    /\ \A k \in DOMAIN vsa.live_sync_pairs.v :
          /\ k = lower(k)
          /\ DOMAIN vsa.live_sync_pairs.v[k] = {"id"}
          /\ vsa.live_sync_pairs.v[k].id \in STRING
    /\ (IsVsaRefresh /\ outcome.kind = "return"
          /\ "siteInfo" \in DOMAIN response.body.v) =>
          /\ DOMAIN vsa.live_sync_pairs.v =
                {lower(StoredEntries[i].subTask.subtaskName) :
                    i \in 1..Len(StoredEntries)}
          /\ \A i \in 1..Len(StoredEntries) :
                LastOfItsName(i) =>
                    vsa.live_sync_pairs.v[lower(StoredEntries[i].subTask.subtaskName)].id
                        = str(StoredEntries[i].replicationId)

\* a refresh() that stored two entries whose names differ only in case
C29_Witness ==
    /\ IsVsaRefresh
    /\ outcome.kind = "return"
    /\ "siteInfo" \in DOMAIN response.body.v
    /\ Len(StoredEntries) = 2
    /\ StoredEntries[1].subTask.subtaskName = <<"F", "o">>
    /\ StoredEntries[2].subTask.subtaskName = <<"f", "o">>
    /\ DOMAIN vsa.live_sync_pairs.v = {<<"f", "o">>}
    /\ vsa.live_sync_pairs.v[<<"f", "o">>].id = "8"

====
